---- MODULE Spec2Model ----
(***************************************************************************)
(* FontPeek: the font-face discovery pipeline.                             *)
(*                                                                         *)
(* Two root components exist in the repository: App (fetchWithProxy,       *)
(* analyze, extractFonts, parseFontFaces over a Map) and FontPeek          *)
(* (extractFontsFromCSS, parseFontFaces, parseGoogleFontsUrl,              *)
(* groupFontsByFamily).  Both are modelled, each from its own source.      *)
(*                                                                         *)
(* Strings.  A JavaScript string is a sequence of lexemes ("Str"): the     *)
(* regular expressions of the source are matched lexeme by lexeme, a       *)
(* character class holding a lexeme when it holds all of its characters.   *)
(* "." , "/" , ":" , ";" , "," , quotes, braces and white space are        *)
(* lexemes of their own, so that split, trim, includes and URL resolution  *)
(* are computed on the structure of the string.                            *)
(***************************************************************************)
EXTENDS Naturals, Sequences, FiniteSets, TLC

\* ------------------------------------------------------------------------
\* Lexical classes
\* ------------------------------------------------------------------------

\* \s
WS == {" ", "\n"}

\* ['"]
Quotes == {"'", "\""}

\* \d+ : the lexemes made of digits only
DigitLex == {"0", "1", "50", "100", "300", "400", "700", "900", "1000"}

\* String.prototype.toLowerCase, lexeme by lexeme
Lower(lex) ==
    CASE lex = "Bold" -> "bold"
      [] lex = "BOLD" -> "bold"
      [] lex = "Italic" -> "italic"
      [] lex = "ITALIC" -> "italic"
      [] lex = "Oblique" -> "oblique"
      [] lex = "Normal" -> "normal"
      [] lex = "WOFF2" -> "woff2"
      [] lex = "TTF" -> "ttf"
      [] lex = "URL(" -> "url("
      [] OTHER -> lex

ToLowerCase(s) == [i \in 1..Len(s) |-> Lower(s[i])]

\* t[i] = lex, with i inside t
Is(t, i, lex) == i >= 1 /\ i <= Len(t) /\ t[i] = lex

\* the same under the /i flag
IsCI(t, i, lex) == i >= 1 /\ i <= Len(t) /\ Lower(t[i]) = lex

In(t, i, S) == i >= 1 /\ i <= Len(t) /\ t[i] \in S

\* Greedy [^Stop]* from position i: the first position not consumed.
RECURSIVE RunEnd(_, _, _)
RunEnd(t, i, Stop) ==
    IF i > Len(t) \/ t[i] \in Stop THEN i ELSE RunEnd(t, i + 1, Stop)

\* Greedy \s* from position i: the first position not consumed.
RECURSIVE SkipWS(_, _)
SkipWS(t, i) == IF In(t, i, WS) THEN SkipWS(t, i + 1) ELSE i

RECURSIVE TrimStart(_)
TrimStart(s) == IF s # <<>> /\ Head(s) \in WS THEN TrimStart(Tail(s)) ELSE s

RECURSIVE TrimEnd(_)
TrimEnd(s) ==
    IF s # <<>> /\ s[Len(s)] \in WS THEN TrimEnd(SubSeq(s, 1, Len(s) - 1)) ELSE s

\* String.prototype.trim
Trim(s) == TrimEnd(TrimStart(s))

\* String.prototype.includes: needle occurs in hay as a contiguous run
Includes(hay, needle) ==
    \E i \in 0..Len(hay) :
        /\ i + Len(needle) <= Len(hay)
        /\ \A j \in 1..Len(needle) : hay[i + j] = needle[j]

\* Position of the first / last occurrence of a lexeme of S in t (0: none)
RECURSIVE IndexOfFrom(_, _, _)
IndexOfFrom(t, i, S) ==
    IF i > Len(t) THEN 0
    ELSE IF t[i] \in S THEN i ELSE IndexOfFrom(t, i + 1, S)

RECURSIVE LastIndexOf(_, _, _)
LastIndexOf(t, i, S) ==
    IF i < 1 THEN 0
    ELSE IF t[i] \in S THEN i ELSE LastIndexOf(t, i - 1, S)

\* String.prototype.split(sep) for a one-lexeme separator
RECURSIVE Split(_, _)
Split(t, sep) ==
    LET p == IndexOfFrom(t, 1, {sep})
    IN  IF p = 0 THEN <<t>>
        ELSE <<SubSeq(t, 1, p - 1)>> \o Split(SubSeq(t, p + 1, Len(t)), sep)

\* Array.prototype.join(sep)
RECURSIVE Join(_, _)
Join(parts, sep) ==
    IF parts = <<>> THEN <<>>
    ELSE IF Len(parts) = 1 THEN parts[1]
    ELSE parts[1] \o <<sep>> \o Join(Tail(parts), sep)

\* A regular-expression match result: null, or the text of capture group 1
Null == [found |-> FALSE, text |-> <<>>]
Some(t) == [found |-> TRUE, text |-> t]

\* ------------------------------------------------------------------------
\* URLs (the WHATWG URL constructor, as far as the pipeline uses it)
\* ------------------------------------------------------------------------

Schemes == {"https:", "http:"}

\* The result of a failed parse: new URL(...) throws TypeError
BadUrl == [ok |-> FALSE, scheme |-> "", host |-> <<>>, path |-> <<>>, query |-> <<>>]

\* Dot-segment removal of the path state: ".." pops, "." is dropped, and a
\* dot segment in last position leaves an empty last segment.
RECURSIVE RemoveDots(_, _)
RemoveDots(segs, out) ==
    IF segs = <<>> THEN out
    ELSE LET seg == Head(segs)
             last == Len(segs) = 1
             popped == IF out = <<>> THEN out ELSE SubSeq(out, 1, Len(out) - 1)
         IN  IF seg = <<".", ".">>
             THEN RemoveDots(Tail(segs), IF last THEN Append(popped, <<>>) ELSE popped)
             ELSE IF seg = <<".">>
             THEN RemoveDots(Tail(segs), IF last THEN Append(out, <<>>) ELSE out)
             ELSE RemoveDots(Tail(segs), Append(out, seg))

\* "/a/b.css" -> its segments; the empty path of a special scheme is "/"
PathSegments(p) == IF p = <<>> THEN << <<>> >> ELSE Split(Tail(p), "/")

\* new URL(input) for a string with a scheme: leading and trailing white space
\* is removed, then come the scheme, "//", a host, the path and the query
ParseAbsolute(input) ==
    LET t == Trim(input)
        hostEnd == RunEnd(t, 3, {"/", "?"})
        q == IndexOfFrom(t, hostEnd, {"?"})
        pathEnd == IF q = 0 THEN Len(t) + 1 ELSE q
    IN  IF Len(t) >= 3 /\ t[1] \in Schemes /\ t[2] = "//" /\ hostEnd > 3
        THEN [ok |-> TRUE, scheme |-> t[1], host |-> SubSeq(t, 3, hostEnd - 1),
              path |-> RemoveDots(PathSegments(SubSeq(t, hostEnd, pathEnd - 1)), <<>>),
              query |-> SubSeq(t, pathEnd, Len(t))]
        ELSE BadUrl

\* new URL(raw, base): the base is parsed first (failure throws), then raw is
\* absolute, scheme-relative, path-absolute, query-only or path-relative.
ResolveUrl(input, base) ==
    LET b == ParseAbsolute(base)
        raw == Trim(input)
        q == IndexOfFrom(raw, 1, {"?"})
        rawPath == IF q = 0 THEN raw ELSE SubSeq(raw, 1, q - 1)
        rawQuery == IF q = 0 THEN <<>> ELSE SubSeq(raw, q, Len(raw))
        dir == SubSeq(b.path, 1, Len(b.path) - 1)
    IN  IF ~b.ok THEN BadUrl
        ELSE IF In(raw, 1, Schemes) THEN ParseAbsolute(raw)
        ELSE IF Is(raw, 1, "//") THEN ParseAbsolute(<<b.scheme>> \o raw)
        ELSE IF raw = <<>> THEN b
        ELSE IF Is(raw, 1, "/")
        THEN [b EXCEPT !.path = RemoveDots(PathSegments(rawPath), <<>>), !.query = rawQuery]
        ELSE IF Is(raw, 1, "?") THEN [b EXCEPT !.query = rawQuery]
        ELSE [b EXCEPT !.path = RemoveDots(dir \o Split(rawPath, "/"), <<>>),
                       !.query = rawQuery]

\* URL.prototype.href
Href(u) == <<u.scheme, "//">> \o u.host \o <<"/">> \o Join(u.path, "/") \o u.query

\* URL.prototype.hostname
Hostname(u) == u.host

\* String.prototype.startsWith('http'), on the first lexeme of the string
StartsWithHttp(s) == In(s, 1, {"http:", "https:", "httpbin"})


\* ------------------------------------------------------------------------
\* Regular expressions of the two parsers
\* ------------------------------------------------------------------------

\* [^}]*(?:\{[^}]*\}[^}]*)*\}  matched from position i by a backtracking
\* matcher: the position of the closing "}" of the match, 0 when none.
\* BodyBack tries the greedy [^}]* first and then gives lexemes back;
\* GroupsThenClose tries one more (?:...) group before the closing brace.
RECURSIVE BodyEnd(_, _)
RECURSIVE BodyBack(_, _, _)
RECURSIVE GroupsThenClose(_, _)

GroupsThenClose(t, j) ==
    LET e == RunEnd(t, j + 1, {"}"})
        viaGroup == IF Is(t, j, "{") /\ e <= Len(t) THEN BodyEnd(t, e + 1) ELSE 0
    IN  IF viaGroup # 0 THEN viaGroup
        ELSE IF Is(t, j, "}") THEN j ELSE 0

BodyBack(t, i, j) ==
    LET r == GroupsThenClose(t, j)
    IN  IF r # 0 THEN r
        ELSE IF j > i THEN BodyBack(t, i, j - 1) ELSE 0

BodyEnd(t, i) == BodyBack(t, i, RunEnd(t, i, {"}"}))

\* fontFaceRegex.exec in a loop (flag g: the search resumes after each match):
\* the texts of capture group 1, in order.
RECURSIVE FontFaceBlocks(_, _)
FontFaceBlocks(cssText, from) ==
    IF from > Len(cssText) THEN <<>>
    ELSE LET s == SkipWS(cssText, from + 1)
             e == IF IsCI(cssText, from, "@font-face") /\ Is(cssText, s, "{")
                  THEN BodyEnd(cssText, s + 1) ELSE 0
         IN  IF e # 0
             THEN <<SubSeq(cssText, s + 1, e - 1)>> \o FontFaceBlocks(cssText, e + 1)
             ELSE FontFaceBlocks(cssText, from + 1)

\* ([^}]+)\}  from position i: the position of the closing "}", 0 when none
AppBodyEnd(t, i) ==
    LET e == RunEnd(t, i, {"}"})
    IN  IF e > i /\ e <= Len(t) THEN e ELSE 0

RECURSIVE AppFontFaceBlocks(_, _)
AppFontFaceBlocks(css, from) ==
    IF from > Len(css) THEN <<>>
    ELSE LET s == SkipWS(css, from + 1)
             e == IF IsCI(css, from, "@font-face") /\ Is(css, s, "{")
                  THEN AppBodyEnd(css, s + 1) ELSE 0
         IN  IF e # 0
             THEN <<SubSeq(css, s + 1, e - 1)>> \o AppFontFaceBlocks(css, e + 1)
             ELSE AppFontFaceBlocks(css, from + 1)

\* \s*['"]?([^Stop]+) after the colon at j - 1: where capture group 1 starts,
\* 0 when the pattern fails.  w is the end of the \s* run being tried: the
\* greedy run first, then one lexeme less; the optional quote is tried
\* before its absence.
RECURSIVE CaptureStart(_, _, _, _, _)
CaptureStart(b, j, w, Stop, quoteOpt) ==
    IF quoteOpt /\ In(b, w, Quotes) /\ w + 1 <= Len(b) /\ b[w + 1] \notin Stop
    THEN w + 1
    ELSE IF w <= Len(b) /\ b[w] \notin Stop THEN w
    ELSE IF w > j THEN CaptureStart(b, j, w - 1, Stop, quoteOpt)
    ELSE 0

\* block.match(/prop\s*:\s*['"]?([^Stop]+)['"]?/i): the leftmost match
RECURSIVE FieldCapture(_, _, _, _, _)
FieldCapture(b, i, prop, Stop, quoteOpt) ==
    IF i > Len(b) THEN Null
    ELSE LET k == SkipWS(b, i + 1)
             c == IF IsCI(b, i, prop) /\ Is(b, k, ":")
                  THEN CaptureStart(b, k + 1, SkipWS(b, k + 1), Stop, quoteOpt)
                  ELSE 0
         IN  IF c # 0 THEN Some(SubSeq(b, c, RunEnd(b, c, Stop) - 1))
             ELSE FieldCapture(b, i + 1, prop, Stop, quoteOpt)

\* A keyword that is a proper prefix of a lexeme: "bold" matches the start
\* of "bolder".
ProperPrefixes == {<<"bolder", "bold">>}

\* One alternative of (\d+|normal|bold|...) tried on a lexeme under /i: the
\* text it captures, <<>> when it does not match.
AltMatch(lex, alt) ==
    IF alt = "\\d+" THEN (IF lex \in DigitLex THEN <<lex>> ELSE <<>>)
    ELSE IF Lower(lex) = alt THEN <<lex>>
    ELSE IF <<lex, alt>> \in ProperPrefixes THEN <<alt>>
    ELSE <<>>

\* The alternatives in order: the first that matches wins.
RECURSIVE FirstAlt(_, _)
FirstAlt(lex, alts) ==
    IF alts = <<>> THEN <<>>
    ELSE IF AltMatch(lex, Head(alts)) # <<>> THEN AltMatch(lex, Head(alts))
    ELSE FirstAlt(lex, Tail(alts))

\* block.match(/prop\s*:\s*(alt1|alt2|...)/i): the leftmost match
RECURSIVE KeywordCapture(_, _, _, _)
KeywordCapture(b, i, prop, alts) ==
    IF i > Len(b) THEN Null
    ELSE LET k == SkipWS(b, i + 1)
             v == SkipWS(b, k + 1)
             cap == IF IsCI(b, i, prop) /\ Is(b, k, ":") /\ v <= Len(b)
                    THEN FirstAlt(b[v], alts) ELSE <<>>
         IN  IF cap # <<>> THEN Some(cap)
             ELSE KeywordCapture(b, i + 1, prop, alts)

\* [^'")\s]
UrlStop == Quotes \cup WS \cup {")"}

\* Lexemes holding a parenthesis
Parens == {"(", ")", "url(", "URL(", "format("}

\* [^'"()]
FormatStop == Quotes \cup Parens

NoMatchAt == [ok |-> FALSE, text |-> <<>>, next |-> 0]

\* url\(['"]?([^'")\s]+)['"]?\)  at position i
UrlAt(t, i) ==
    LET c == IF In(t, i + 1, Quotes) THEN i + 2 ELSE i + 1
        e == RunEnd(t, c, UrlStop)
        close == IF In(t, e, Quotes) THEN e + 1 ELSE e
    IN  IF IsCI(t, i, "url(") /\ e > c /\ Is(t, close, ")")
        THEN [ok |-> TRUE, text |-> SubSeq(t, c, e - 1), next |-> close + 1]
        ELSE NoMatchAt

\* \s*format\(['"]?([^'"()]+)['"]?\)  at position j
FormatAt(t, j) ==
    LET k == SkipWS(t, j)
        c == IF In(t, k + 1, Quotes) THEN k + 2 ELSE k + 1
        e == RunEnd(t, c, FormatStop)
        close == IF In(t, e, Quotes) THEN e + 1 ELSE e
    IN  IF IsCI(t, k, "format(") /\ e > c /\ Is(t, close, ")")
        THEN [ok |-> TRUE, text |-> SubSeq(t, c, e - 1), next |-> close + 1]
        ELSE NoMatchAt

\* ([^'"]+)['"]?\)  with the greedy capture ending before e, backtracking
\* down to c + 1: where the capture ends, 0 when the pattern fails.
RECURSIVE AppFormatBack(_, _, _)
AppFormatBack(t, c, e) ==
    IF e <= c THEN 0
    ELSE IF (In(t, e, Quotes) /\ Is(t, e + 1, ")")) \/ Is(t, e, ")") THEN e
    ELSE AppFormatBack(t, c, e - 1)

\* \s*format\(['"]?([^'"]+)['"]?\)  at position j
AppFormatAt(t, j) ==
    LET k == SkipWS(t, j)
        c == IF In(t, k + 1, Quotes) THEN k + 2 ELSE k + 1
        e == AppFormatBack(t, c, RunEnd(t, c, Quotes))
    IN  IF IsCI(t, k, "format(") /\ e # 0
        THEN [ok |-> TRUE, text |-> SubSeq(t, c, e - 1),
              next |-> IF In(t, e, Quotes) THEN e + 2 ELSE e + 1]
        ELSE NoMatchAt


\* ------------------------------------------------------------------------
\* fontExtractor: parseFontFaces, parseGoogleFontsUrl, normalizeWeight,
\* getFormatFromUrl
\* ------------------------------------------------------------------------

\* A FontInfo without url (undefined; every reader tests it by truthiness)
NoUrl == <<>>

\* FontInfo
Desc(family, weight, style, source, url, format) ==
    [family |-> family, weight |-> weight, style |-> style,
     source |-> source, url |-> url, format |-> format]

\* normalizeWeight without toLowerCase()
NormalizeWeightCaseSensitive(weight) ==
    CASE weight = <<"normal">> -> <<"400">>
      [] weight = <<"bold">> -> <<"700">>
      [] weight = <<"lighter">> -> <<"300">>
      [] weight = <<"bolder">> -> <<"700">>
      [] OTHER -> weight

\* weightMap[weight.toLowerCase()] || weight
NormalizeWeight(weight) ==
    LET w == ToLowerCase(weight)
    IN  CASE w = <<"normal">> -> <<"400">>
          [] w = <<"bold">> -> <<"700">>
          [] w = <<"lighter">> -> <<"300">>
          [] w = <<"bolder">> -> <<"700">>
          [] OTHER -> weight

\* url.split('.').pop()?.toLowerCase().split('?')[0], then formatMap[..] || 'unknown'
GetFormatFromUrl(url) ==
    LET parts == Split(url, ".")
        extension == Split(ToLowerCase(parts[Len(parts)]), "?")[1]
    IN  CASE extension = <<"woff2">> -> <<"woff2">>
          [] extension = <<"woff">> -> <<"woff">>
          [] extension = <<"ttf">> -> <<"truetype">>
          [] extension = <<"otf">> -> <<"opentype">>
          [] extension = <<"eot">> -> <<"embedded-opentype">>
          [] OTHER -> <<"unknown">>

\* push without the try: an unresolvable entry is pushed with its raw url
PushFontUnresolved(fonts, family, weight, style, fontUrl, format, baseUrl) ==
    LET full == ResolveUrl(fontUrl, baseUrl)
        base == ParseAbsolute(baseUrl)
    IN  Append(fonts, Desc(family, NormalizeWeight(weight), style,
                           IF base.ok THEN Hostname(base) ELSE <<>>,
                           IF full.ok THEN Href(full) ELSE fontUrl, format))

\* try { fullUrl = new URL(fontUrl, baseUrl).href; fonts.push({... source:
\* new URL(baseUrl).hostname ...}) } catch { }
PushFont(fonts, family, weight, style, fontUrl, format, baseUrl) ==
    LET full == ResolveUrl(fontUrl, baseUrl)
        base == ParseAbsolute(baseUrl)
    IN  IF full.ok /\ base.ok
        THEN Append(fonts, Desc(family, NormalizeWeight(weight), style,
                                Hostname(base), Href(full), format))
        ELSE fonts

\* while ((urlMatch = urlRegex.exec(srcValue)) !== null): url() format() pairs
RECURSIVE UrlFormatPass(_, _, _, _, _, _, _)
UrlFormatPass(fonts, srcValue, i, family, weight, style, baseUrl) ==
    IF i > Len(srcValue) THEN fonts
    ELSE LET u == UrlAt(srcValue, i)
             f == IF u.ok THEN FormatAt(srcValue, u.next) ELSE NoMatchAt
         IN  IF f.ok
             THEN UrlFormatPass(
                      PushFont(fonts, family, weight, style, u.text,
                               ToLowerCase(f.text), baseUrl),
                      srcValue, f.next, family, weight, style, baseUrl)
             ELSE UrlFormatPass(fonts, srcValue, i + 1, family, weight, style, baseUrl)

\* while ((simpleMatch = simpleUrlRegex.exec(srcValue)) !== null): every url()
RECURSIVE SimpleUrlPass(_, _, _, _, _, _, _)
SimpleUrlPass(fonts, srcValue, i, family, weight, style, baseUrl) ==
    IF i > Len(srcValue) THEN fonts
    ELSE LET u == UrlAt(srcValue, i)
             seen == \E k \in 1..Len(fonts) : Includes(fonts[k].url, u.text)
         IN  IF ~u.ok
             THEN SimpleUrlPass(fonts, srcValue, i + 1, family, weight, style, baseUrl)
             ELSE IF seen
             THEN SimpleUrlPass(fonts, srcValue, u.next, family, weight, style, baseUrl)
             ELSE SimpleUrlPass(
                      PushFont(fonts, family, weight, style, u.text,
                               GetFormatFromUrl(u.text), baseUrl),
                      srcValue, u.next, family, weight, style, baseUrl)

\* The body of the while loop of parseFontFaces, for one block
ParseBlock(fonts, block, baseUrl) ==
    LET familyMatch == FieldCapture(block, 1, "font-family", Quotes \cup {";", ","}, TRUE)
        family == IF familyMatch.found THEN Trim(familyMatch.text) ELSE <<"Unknown">>
        weightMatch == KeywordCapture(block, 1, "font-weight",
                           <<"\\d+", "normal", "bold", "lighter", "bolder">>)
        weight == IF weightMatch.found THEN weightMatch.text ELSE <<"400">>
        styleMatch == KeywordCapture(block, 1, "font-style",
                           <<"normal", "italic", "oblique">>)
        style == IF styleMatch.found THEN styleMatch.text ELSE <<"normal">>
        srcMatch == FieldCapture(block, 1, "src", {";"}, FALSE)
    IN  IF srcMatch.found
        THEN SimpleUrlPass(
                 UrlFormatPass(fonts, srcMatch.text, 1, family, weight, style, baseUrl),
                 srcMatch.text, 1, family, weight, style, baseUrl)
        ELSE fonts

RECURSIVE ParseBlocks(_, _, _)
ParseBlocks(fonts, blocks, baseUrl) ==
    IF blocks = <<>> THEN fonts
    ELSE ParseBlocks(ParseBlock(fonts, Head(blocks), baseUrl), Tail(blocks), baseUrl)

\* parseFontFaces(cssText, baseUrl) of fontExtractor
ParseFontFaces(cssText, baseUrl) ==
    ParseBlocks(<<>>, FontFaceBlocks(cssText, 1), baseUrl)


\* Lexemes holding the character "i"
HasCharI == {"i", "italic", "ital", "Italic", "light", "oblique"}

\* URLSearchParams decoding of one lexeme: "+" is a space, %XX is decoded
FormDecode(lex) ==
    CASE lex = "+" -> " "
      [] lex = "%7C" -> "|"
      [] lex = "%2B" -> "+"
      [] OTHER -> lex

\* The first parameter called name among "a=b&c=d" parts, decoded
RECURSIVE FirstParam(_, _)
FirstParam(params, name) ==
    IF params = <<>> THEN Null
    ELSE LET p == Head(params)
             eq == IndexOfFrom(p, 1, {"="})
             key == IF eq = 0 THEN p ELSE SubSeq(p, 1, eq - 1)
             val == IF eq = 0 THEN <<>> ELSE SubSeq(p, eq + 1, Len(p))
         IN  IF key = <<name>> THEN Some([i \in 1..Len(val) |-> FormDecode(val[i])])
             ELSE FirstParam(Tail(params), name)

\* urlObj.searchParams.get(name): null when the parameter is absent
SearchParamsGet(u, name) ==
    IF u.query = <<>> THEN Null ELSE FirstParam(Split(Tail(u.query), "&"), name)

\* name.replace(/\+/g, ' ')
ReplacePlus(name) == [i \in 1..Len(name) |-> IF name[i] = "+" THEN " " ELSE name[i]]

\* w.replace(/[^\d]/g, '')
DigitsOnly(w) == SelectSeq(w, LAMBDA lex : lex \in DigitLex)

\* weightList.forEach((w) => ...): one FontInfo per token
RECURSIVE GoogleWeights(_, _)
GoogleWeights(fontName, weightList) ==
    IF weightList = <<>> THEN <<>>
    ELSE LET w == Head(weightList)
             isItalic == (\E i \in 1..Len(w) : w[i] \in HasCharI) \/ Includes(w, <<"italic">>)
             weight == IF DigitsOnly(w) # <<>> THEN DigitsOnly(w) ELSE <<"400">>
         IN  <<Desc(fontName, weight, IF isItalic THEN <<"italic">> ELSE <<"normal">>,
                    <<"Google Fonts">>, NoUrl, <<>>)>>
             \o GoogleWeights(fontName, Tail(weightList))

\* families.forEach((family) => ...)
RECURSIVE GoogleFamilies(_)
GoogleFamilies(families) ==
    IF families = <<>> THEN <<>>
    ELSE LET parts == Split(Head(families), ":")
             fontName == ReplacePlus(parts[1])
             weights == IF Len(parts) >= 2 THEN parts[2] ELSE <<>>
         IN  (IF weights # <<>>
              THEN GoogleWeights(fontName, Split(weights, ","))
              ELSE <<Desc(fontName, <<"400">>, <<"normal">>, <<"Google Fonts">>, NoUrl, <<>>)>>)
             \o GoogleFamilies(Tail(families))

\* parseGoogleFontsUrl(url): new URL(url) throwing yields no font
ParseGoogleFontsUrl(url) ==
    LET urlObj == ParseAbsolute(url)
        familyParam == IF urlObj.ok THEN SearchParamsGet(urlObj, "family") ELSE Null
    IN  IF familyParam.found /\ familyParam.text # <<>>
        THEN GoogleFamilies(Split(familyParam.text, "|"))
        ELSE <<>>

\* ------------------------------------------------------------------------
\* App: parseFontFaces over the Map fontMap, normalizeWeight
\* ------------------------------------------------------------------------

\* normalizeWeight of App: compares with === , no lower-casing
AppNormalizeWeight(w) ==
    IF w = <<"normal">> THEN <<"400">>
    ELSE IF w = <<"bold">> THEN <<"700">>
    ELSE w

\* A Map<string, FontWeight[]> in insertion order: a sequence of entries
MapIndex(fontMap, family) ==
    IF \E i \in 1..Len(fontMap) : fontMap[i].family = family
    THEN CHOOSE i \in 1..Len(fontMap) : fontMap[i].family = family
    ELSE 0

\* if (!fontMap.has(family)) fontMap.set(family, []); then push unless some
\* weight of the family has the same weight and style
MapAdd(fontMap, family, weight, style, fontUrl, format) ==
    LET m == IF MapIndex(fontMap, family) = 0
             THEN Append(fontMap, [family |-> family, weights |-> <<>>])
             ELSE fontMap
        i == MapIndex(m, family)
        weights == m[i].weights
        exists == \E k \in 1..Len(weights) :
                      weights[k].weight = weight /\ weights[k].style = style
    IN  IF exists THEN m
        ELSE [m EXCEPT ![i].weights =
                  Append(weights, [weight |-> weight, style |-> style,
                                   url |-> fontUrl, format |-> format])]

\* srcMatch[1].match(/url(...)\s*format(['"]?([^'"]+)['"]?)/i): leftmost match
RECURSIVE AppUrlFormatMatch(_, _)
AppUrlFormatMatch(t, i) ==
    IF i > Len(t) THEN [ok |-> FALSE, url |-> <<>>, format |-> <<>>]
    ELSE LET u == UrlAt(t, i)
             f == IF u.ok THEN AppFormatAt(t, u.next) ELSE NoMatchAt
         IN  IF f.ok THEN [ok |-> TRUE, url |-> u.text, format |-> f.text]
             ELSE AppUrlFormatMatch(t, i + 1)

\* srcMatch[1].match(/url\(['"]?([^'")\s]+)['"]?\)/i): leftmost match
RECURSIVE AppUrlOnlyMatch(_, _)
AppUrlOnlyMatch(t, i) ==
    IF i > Len(t) THEN NoMatchAt
    ELSE IF UrlAt(t, i).ok THEN UrlAt(t, i)
    ELSE AppUrlOnlyMatch(t, i + 1)

\* fontUrl.split('.').pop()?.split('?')[0] || ''
AppExt(fontUrl) ==
    LET parts == Split(fontUrl, ".")
    IN  Split(parts[Len(parts)], "?")[1]

\* if (baseUrl && !fontUrl.startsWith('http')) fontUrl = new URL(fontUrl,
\* baseUrl).href, kept as written when the URL constructor throws; then the
\* entry is added to the Map. baseUrl is <<>> when the argument is omitted.
AppAddResolved(fontMap, family, weight, style, rawUrl, resolved, format, baseUrl) ==
    MapAdd(fontMap, family, weight, style,
           IF baseUrl # <<>> /\ ~StartsWithHttp(rawUrl) /\ resolved.ok
           THEN Href(resolved) ELSE rawUrl,
           format)

\* The first url(...) format(...) pair of src, or else the first url(...)
\* with its extension as the format; with neither, fontUrl stays '' and the
\* block is skipped
AppAddSrc(fontMap, family, weight, style, urlFormatMatch, urlOnlyMatch, baseUrl) ==
    IF urlFormatMatch.ok
    THEN AppAddResolved(fontMap, family, weight, style, urlFormatMatch.url,
                        ResolveUrl(urlFormatMatch.url, baseUrl),
                        urlFormatMatch.format, baseUrl)
    ELSE IF urlOnlyMatch.ok
    THEN AppAddResolved(fontMap, family, weight, style, urlOnlyMatch.text,
                        ResolveUrl(urlOnlyMatch.text, baseUrl),
                        AppExt(urlOnlyMatch.text), baseUrl)
    ELSE fontMap

\* App's parseFontFaces with the default of fontExtractor ('Unknown') where it
\* has if (!familyMatch) continue
AppAddMatchesUnknown(fontMap, familyMatch, weightMatch, styleMatch, srcMatch, baseUrl) ==
    IF ~srcMatch.found THEN fontMap
    ELSE AppAddSrc(fontMap,
                   IF familyMatch.found THEN Trim(familyMatch.text) ELSE <<"Unknown">>,
                   IF weightMatch.found THEN AppNormalizeWeight(weightMatch.text)
                   ELSE <<"400">>,
                   IF styleMatch.found THEN styleMatch.text ELSE <<"normal">>,
                   AppUrlFormatMatch(srcMatch.text, 1),
                   AppUrlOnlyMatch(srcMatch.text, 1),
                   baseUrl)

\* if (!familyMatch) continue; the weight and style defaults; if (!srcMatch)
\* continue
AppAddMatches(fontMap, familyMatch, weightMatch, styleMatch, srcMatch, baseUrl) ==
    IF ~familyMatch.found \/ ~srcMatch.found THEN fontMap
    ELSE AppAddSrc(fontMap, Trim(familyMatch.text),
                   IF weightMatch.found THEN AppNormalizeWeight(weightMatch.text)
                   ELSE <<"400">>,
                   IF styleMatch.found THEN styleMatch.text ELSE <<"normal">>,
                   AppUrlFormatMatch(srcMatch.text, 1),
                   AppUrlOnlyMatch(srcMatch.text, 1),
                   baseUrl)

\* The body of the while loop of App's parseFontFaces, for one block
AppParseBlock(fontMap, block, baseUrl) ==
    AppAddMatches(fontMap,
                  FieldCapture(block, 1, "font-family", Quotes \cup {";"}, TRUE),
                  KeywordCapture(block, 1, "font-weight", <<"\\d+", "normal", "bold">>),
                  KeywordCapture(block, 1, "font-style", <<"normal", "italic", "oblique">>),
                  FieldCapture(block, 1, "src", {";"}, FALSE),
                  baseUrl)

RECURSIVE AppParseBlocks(_, _, _)
AppParseBlocks(fontMap, blocks, baseUrl) ==
    IF blocks = <<>> THEN fontMap
    ELSE AppParseBlocks(AppParseBlock(fontMap, Head(blocks), baseUrl),
                        Tail(blocks), baseUrl)

\* parseFontFaces(css, fontMap, baseUrl) of App
AppParseFontFaces(css, fontMap, baseUrl) ==
    AppParseBlocks(fontMap, AppFontFaceBlocks(css, 1), baseUrl)


\* ------------------------------------------------------------------------
\* The web the components are run against: pages, style sheets, relays
\* ------------------------------------------------------------------------

Https(host) == <<"https:", "//">> \o host

FontFace(decls) == <<"@font-face", "{">> \o decls \o <<"}">>

Decl(prop, value) == <<prop, ":">> \o value \o <<";">>

UrlFormat(u, f) == <<"url(">> \o u \o <<")", " ", "format(", "\"", f, "\"", ")">>

\* Elements of a parsed document
Link(rel, as, href) == [tag |-> "link", rel |-> rel, as |-> as, href |-> href, text |-> <<>>]
Style(text) == [tag |-> "style", rel |-> "", as |-> "", href |-> <<>>, text |-> text]

GoogleHost == <<"fonts", ".", "googleapis", ".", "com">>

RobotoHref ==
    Https(GoogleHost) \o <<"/", "css", "?", "family", "=", "Roboto", ":", "400", ",", "700", "i">>

\* @font-face{font-family:"Acme";src:url(a.woff2) format("woff2");}
AcmeCss ==
    FontFace(Decl("font-family", <<"\"", "Acme", "\"">>)
             \o Decl("src", UrlFormat(<<"a", ".", "woff2">>, "woff2")))

\* The style sheet of shop.io: Acme again (bold), then Beta Sans
ShopCss ==
    FontFace(Decl("font-family", <<"Acme">>) \o Decl("font-weight", <<"bold">>)
             \o Decl("src", UrlFormat(<<".", ".", "/", "fonts", "/", "x", ".", "woff2">>, "woff2")))
    \o FontFace(Decl("font-family", <<"Beta", " ", "Sans">>)
                \o Decl("src", <<"url(", "b", ".", "ttf", ")">>))

\* What Google serves for RobotoHref
RobotoCss ==
    FontFace(Decl("font-family", <<"'", "Roboto", "'">>) \o Decl("font-weight", <<"400">>)
             \o Decl("src", UrlFormat(Https(<<"fonts", ".", "gstatic", ".", "com">>)
                                      \o <<"/", "r", ".", "woff2">>, "woff2")))

ExCom == <<"ex", ".", "com">>
ShopIo == <<"shop", ".", "io">>
BlankOrg == <<"blank", ".", "org">>
GuardNet == <<"guard", ".", "net">>

\* The document and body text behind each host
PageOf(host) ==
    CASE host = ExCom ->
            [markers |-> {}, elems |-> <<Style(AcmeCss)>>]
      [] host = ShopIo ->
            [markers |-> {},
             elems |-> <<Link("stylesheet", "", <<"css", "/", "a", ".", "css">>),
                         Link("stylesheet", "", RobotoHref),
                         Style(AcmeCss)>>]
      [] host = GuardNet ->
            [markers |-> {"Cloudflare"}, elems |-> <<Style(AcmeCss)>>]
      [] OTHER ->
            [markers |-> {}, elems |-> <<>>]

Hosts == {ExCom, ShopIo, BlankOrg, GuardNet}

\* The host a relay reaches for a target (a target typed without a scheme is
\* reached by its host name)
HostOfTarget(target) ==
    IF ParseAbsolute(target).ok THEN ParseAbsolute(target).host
    ELSE SubSeq(target, 1, RunEnd(target, 1, {"/", "?"}) - 1)

\* The body a relay returns for a target: response.text(), which the caller
\* reads as a document (page) or as a style sheet (css)
BodyOf(target) ==
    [page |-> PageOf(HostOfTarget(target)),
     css |-> IF HostOfTarget(target) = GoogleHost THEN RobotoCss
             ELSE IF HostOfTarget(target) = ShopIo THEN ShopCss
             ELSE <<>>]

\* What the user may type in the URL box
UserInputs ==
    {<<>>, <<" ">>, ExCom, Https(ExCom), <<" ">> \o Https(ShopIo), Https(BlankOrg),
     Https(GuardNet)}

\* How a request to a relay can end: a 2xx response, another status, or a
\* rejected promise
Outcomes == {"ok", "non2xx", "error"}


\* ------------------------------------------------------------------------
\* State
\* ------------------------------------------------------------------------

VARIABLES
    component,  \* the root component being rendered: "App", "FontPeek" or
                \* "functions" (the exported functions called on their own)
    url,        \* App: useState('')
    fonts,      \* App: useState<FontGroup[]>([])
    loading,    \* App: useState(false)
    error,      \* App: useState('')
    analyzed,   \* App: useState(false)
    pc,         \* where the last analyze call is: "idle" (none yet), "rejected",
                \* "page", "css" (awaiting that fetch) or "done"
    targetUrl,  \* analyze: let targetUrl / extractFontsFromCSS: url
    html,       \* the fetched document
    jobs,       \* the style sheets still to fetch, in loop order
    fontMap,    \* extractFonts: const fontMap
    calls,      \* fetchWithProxy calls of the current analysis (history)
    netlog,     \* requests issued by the current analysis, in order (history)
    pkUrl,      \* FontPeek: useState('')
    pkFonts,    \* FontPeek: useState<FontGroup[]>([])
    isLoading,  \* FontPeek: useState(false)
    alerts,     \* FontPeek: what the last analyze call passed to alert(), "" if nothing
    found,      \* extractFontsFromCSS: const fonts
    selectedFormat, \* App: useState<TargetFormat>('original'); FontFamily:
                    \* useState<Format>('woff2') of the family panel in use
    dl,         \* the download call: where it is and what it was called with
    dlog,       \* requests issued by the last download operation, in order (history)
    saved,      \* the files it saved (history)
    opened,     \* the URLs it passed to window.open (history)
    converting, \* App: useState<string | null>(null)
    flights,    \* the download calls of App that overlap, each with its row
    loadedFonts,    \* App: useState<Set<string>>(new Set())
    documentFonts,  \* document.fonts: the family of each FontFace added, in order
    runs,       \* the loadAllFonts runs that await a load, oldest first
    effectFonts,    \* the value of fonts the preview effect last ran for
    input,      \* the arguments of a function called on its own
    op,         \* the function that was called
    out         \* what it returned

appVars == <<url, fonts, loading, error, analyzed>>
frameVars == <<pc, targetUrl, html, jobs, fontMap>>
netVars == <<calls, netlog>>
peekVars == <<pkUrl, pkFonts, isLoading, alerts, found>>
callVars == <<input, op, out>>
rowVars == <<converting, flights>>
previewVars == <<loadedFonts, documentFonts, runs, effectFonts>>
dlVars == <<selectedFormat, dl, dlog, saved, opened, rowVars, previewVars>>
vars == <<component, appVars, frameVars, netVars, peekVars, callVars, dlVars>>

NoPage == [markers |-> {}, elems |-> <<>>]

\* converting = null
NoKey == <<>>

\* The most loadAllFonts runs in progress at a time
MaxRuns == 2

\* No download under way, none made
NoDownload ==
    [pc |-> "idle", url |-> <<>>, family |-> <<>>, weight |-> <<>>, style |-> <<>>,
     format |-> <<>>, target |-> <<>>, rest |-> <<>>, alert |-> ""]

\* A session is followed through its analyses and then through what the user
\* does with the results of the last one, the format chosen before the
\* download: an analysis starts while the results are untouched (no format
\* chosen, no download made or in flight, no preview font loaded, room for
\* another preview run), and a format is chosen, a download made or a preview
\* load ended while no analyze call is under way.
Analyzing == component \in {"App", "FontPeek"} /\ pc \in {"page", "css"}

ResultsUntouched ==
    /\ dl = NoDownload
    /\ selectedFormat = IF component = "FontPeek" THEN <<"woff2">> ELSE <<"original">>
    /\ flights = <<>>
    /\ loadedFonts = {}
    /\ Len(runs) < MaxRuns

\* ------------------------------------------------------------------------
\* App: fetchWithProxy
\* ------------------------------------------------------------------------

\* const CORS_PROXIES
CORS_PROXIES == <<"https://corsproxy.io/?", "https://api.allorigins.win/raw?url=">>

\* new Error('All proxies failed').message
AllProxiesFailed == <<"All", " ", "proxies", " ", "failed">>

\* One turn of the for loop of fetchWithProxy, for the k-th relay and the way
\* its request ended: return the response, go on to relay k + 1, or fall out
\* of the loop and throw.
\* fetchWithProxy without the return inside the loop: the next relay is
\* contacted whatever the answer of this one
FetchWithProxyNoReturn(k, outcome) ==
    IF k < Len(CORS_PROXIES) THEN [act |-> "next", k |-> k + 1]
    ELSE IF outcome = "ok" THEN [act |-> "return", k |-> k]
    ELSE [act |-> "throw", k |-> k]

\* fetchWithProxy returning the answer of the last relay whatever its status
FetchWithProxyReturnLast(k, outcome) ==
    IF outcome = "ok" \/ k = Len(CORS_PROXIES) THEN [act |-> "return", k |-> k]
    ELSE [act |-> "next", k |-> k + 1]

FetchWithProxyStep(k, outcome) ==
    IF outcome = "ok" THEN [act |-> "return", k |-> k]
    ELSE IF k < Len(CORS_PROXIES) THEN [act |-> "next", k |-> k + 1]
    ELSE [act |-> "throw", k |-> k]

\* fetch(proxy + encodeURIComponent(targetUrl), ...) for the k-th relay
ProxyRequest(call, k, target) ==
    [call |-> call, via |-> CORS_PROXIES[k], target |-> target, outcome |-> "pending"]

\* The request the analysis waits for
Pending == netlog # <<>> /\ netlog[Len(netlog)].outcome = "pending"

Settled(log, outcome) == [log EXCEPT ![Len(log)].outcome = outcome]

\* The number of relays the current fetchWithProxy call has contacted
CurK == Cardinality({i \in 1..Len(netlog) : netlog[i].call = Len(calls)})

\* fetchWithProxy(target) is called: the first relay is contacted at once
CallFetchWithProxy(cs, log, target) ==
    /\ calls' = Append(cs, [target |-> target, result |-> "pending",
                            via |-> "", message |-> <<>>])
    /\ netlog' = Append(log, ProxyRequest(Len(cs) + 1, 1, target))

Returned(cs, via) == [cs EXCEPT ![Len(cs)].result = "response", ![Len(cs)].via = via]

Thrown(cs) == [cs EXCEPT ![Len(cs)].result = "thrown", ![Len(cs)].message = AllProxiesFailed]


\* ------------------------------------------------------------------------
\* App: analyze, extractFonts
\* ------------------------------------------------------------------------

EnterAUrl == "Enter a URL"
NoFontFaceRules == "No @font-face rules found on this page"
\* The catch of analyze reporting what the empty result reports
SameMessage == "No @font-face rules found on this page"

CouldNotFetch == "Could not fetch page. Try a different URL."

\* doc.querySelectorAll('link[href*="fonts.googleapis.com"]')
IsGoogleLink(e) == e.tag = "link" /\ Includes(e.href, GoogleHost)

\* doc.querySelectorAll('link[rel="stylesheet"]')
IsStyleLink(e) == e.tag = "link" /\ e.rel = "stylesheet"

\* doc.querySelectorAll('style')
InlineStyles(elems) == SelectSeq(elems, LAMBDA e : e.tag = "style")

\* extractFonts with one loop over the style sheet links of the document, the
\* Google links among them
ExtractFontsJobsOneLoop(elems, baseUrl) ==
    LET sheets == SelectSeq(elems, LAMBDA e :
                      /\ e.tag = "link" /\ e.href # <<>>
                      /\ IsGoogleLink(e) \/ (IsStyleLink(e) /\ ResolveUrl(e.href, baseUrl).ok))
    IN  [i \in 1..Len(sheets) |->
            IF IsGoogleLink(sheets[i])
            THEN [target |-> sheets[i].href, base |-> <<>>]
            ELSE [target |-> Href(ResolveUrl(sheets[i].href, baseUrl)),
                  base |-> Href(ResolveUrl(sheets[i].href, baseUrl))]]

\* The fetches of extractFonts in loop order: the Google links by their href
\* (parsed without base URL), then the other style sheets by their resolved
\* URL; a link whose href does not resolve is skipped by the catch.
ExtractFontsJobs(elems, baseUrl) ==
    LET google == SelectSeq(elems, LAMBDA e : IsGoogleLink(e) /\ e.href # <<>>)
        sheets == SelectSeq(elems, LAMBDA e :
                      /\ IsStyleLink(e) /\ e.href # <<>>
                      /\ ~Includes(e.href, GoogleHost)
                      /\ ResolveUrl(e.href, baseUrl).ok)
    IN  [i \in 1..Len(google) |-> [target |-> google[i].href, base |-> <<>>]]
        \o [i \in 1..Len(sheets) |->
               [target |-> Href(ResolveUrl(sheets[i].href, baseUrl)),
                base |-> Href(ResolveUrl(sheets[i].href, baseUrl))]]

\* for (const style of inlineStyles) if (style.textContent) parseFontFaces(...)
RECURSIVE AppParseInline(_, _, _)
AppParseInline(map, styles, baseUrl) ==
    IF styles = <<>> THEN map
    ELSE AppParseInline(
             IF Head(styles).text # <<>>
             THEN AppParseFontFaces(Head(styles).text, map, baseUrl) ELSE map,
             Tail(styles), baseUrl)

\* onChange of the URL box, which is disabled while loading
SetUrl(v) ==
    /\ component = "App"
    /\ ResultsUntouched
    /\ ~loading
    /\ url' = v
    /\ UNCHANGED <<component, fonts, loading, error, analyzed, frameVars, netVars,
                   peekVars, callVars, dlVars>>

\* analyze with its test for an empty URL placed after the reset of the state
AnalyzeEmptyAfterReset ==
    /\ component = "App"
    /\ ResultsUntouched
    /\ ~loading
    /\ Trim(url) = <<>>
    /\ error' = EnterAUrl
    /\ fonts' = <<>>
    /\ analyzed' = TRUE
    /\ pc' = "rejected"
    /\ UNCHANGED <<component, url, loading, targetUrl, html, jobs, fontMap,
                   netVars, peekVars, callVars, dlVars>>

\* analyze with nothing typed: if (!targetUrl) { setError('Enter a URL'); return }
AnalyzeEmpty ==
    /\ component = "App"
    /\ ResultsUntouched
    /\ ~loading
    /\ Trim(url) = <<>>
    /\ error' = EnterAUrl
    /\ pc' = "rejected"
    /\ UNCHANGED <<component, url, fonts, loading, analyzed, targetUrl, html, jobs, fontMap,
                   netVars, peekVars, callVars, dlVars>>

\* analyze up to its first await: the URL is completed, the state is reset and
\* fetchWithProxy(targetUrl) contacts the first relay
AnalyzeStart ==
    /\ component = "App"
    /\ ResultsUntouched
    /\ ~loading
    /\ Trim(url) # <<>>
    /\ LET t == Trim(url)
           target == IF StartsWithHttp(t) THEN t ELSE <<"https:", "//">> \o t
       IN  /\ url' = IF StartsWithHttp(t) THEN url ELSE target
           /\ targetUrl' = target
           /\ CallFetchWithProxy(<<>>, <<>>, target)
    /\ loading' = TRUE
    /\ error' = ""
    /\ fonts' = <<>>
    /\ analyzed' = TRUE
    /\ pc' = "page"
    /\ html' = NoPage
    /\ jobs' = <<>>
    /\ fontMap' = <<>>
    /\ UNCHANGED <<component, peekVars, callVars, dlVars>>

\* extractFonts from the top of a loop turn: the next style sheet is fetched,
\* or, the loops done, the inline styles are parsed, the Map becomes the
\* result, and analyze sets error or fonts and, in finally, loading.
ExtractFontsFrom(map, js, cs, log, doc) ==
    IF js # <<>>
    THEN /\ pc' = "css"
         /\ jobs' = js
         /\ fontMap' = map
         /\ CallFetchWithProxy(cs, log, Head(js).target)
         /\ UNCHANGED <<fonts, error, loading>>
    ELSE /\ pc' = "done"
         /\ jobs' = <<>>
         /\ fontMap' = AppParseInline(map, InlineStyles(doc.elems), targetUrl)
         /\ calls' = cs
         /\ netlog' = log
         /\ loading' = FALSE
         /\ IF Len(fontMap') = 0
            THEN /\ error' = NoFontFaceRules
                 /\ UNCHANGED fonts
            ELSE /\ fonts' = fontMap'
                 /\ UNCHANGED error

\* A relay's request fails and fetchWithProxy goes on to the next relay
RelayNext(outcome) ==
    /\ component = "App"
    /\ pc \in {"page", "css"}
    /\ Pending
    /\ FetchWithProxyStep(CurK, outcome).act = "next"
    /\ netlog' = Append(Settled(netlog, outcome),
                        ProxyRequest(Len(calls), FetchWithProxyStep(CurK, outcome).k,
                                     calls[Len(calls)].target))
    /\ UNCHANGED <<component, appVars, frameVars, calls, peekVars, callVars, dlVars>>

\* The page arrives: response.text(), then extractFonts(html, targetUrl)
PageFetched(outcome) ==
    /\ component = "App"
    /\ pc = "page"
    /\ Pending
    /\ FetchWithProxyStep(CurK, outcome).act = "return"
    /\ html' = BodyOf(targetUrl).page
    /\ ExtractFontsFrom(<<>>, ExtractFontsJobs(html'.elems, targetUrl),
                        Returned(calls, netlog[Len(netlog)].via),
                        Settled(netlog, outcome), html')
    /\ UNCHANGED <<component, url, analyzed, targetUrl, peekVars, callVars, dlVars>>

\* The catch of analyze without its finally: loading is left as it is
PageFailedNoFinally(outcome) ==
    /\ component = "App"
    /\ pc = "page"
    /\ Pending
    /\ FetchWithProxyStep(CurK, outcome).act = "throw"
    /\ calls' = Thrown(calls)
    /\ netlog' = Settled(netlog, outcome)
    /\ error' = CouldNotFetch
    /\ pc' = "done"
    /\ UNCHANGED <<component, url, fonts, loading, analyzed, targetUrl, html, jobs, fontMap,
                   peekVars, callVars, dlVars>>

\* fetchWithProxy throws for the page: the catch and the finally of analyze
PageFailed(outcome) ==
    /\ component = "App"
    /\ pc = "page"
    /\ Pending
    /\ FetchWithProxyStep(CurK, outcome).act = "throw"
    /\ calls' = Thrown(calls)
    /\ netlog' = Settled(netlog, outcome)
    /\ error' = CouldNotFetch
    /\ loading' = FALSE
    /\ pc' = "done"
    /\ UNCHANGED <<component, url, fonts, analyzed, targetUrl, html, jobs, fontMap,
                   peekVars, callVars, dlVars>>

\* A style sheet arrives: it is parsed into fontMap and the loop goes on
CssFetched(outcome) ==
    /\ component = "App"
    /\ pc = "css"
    /\ Pending
    /\ FetchWithProxyStep(CurK, outcome).act = "return"
    /\ ExtractFontsFrom(
           AppParseFontFaces(BodyOf(Head(jobs).target).css, fontMap, Head(jobs).base),
           Tail(jobs), Returned(calls, netlog[Len(netlog)].via),
           Settled(netlog, outcome), html)
    /\ UNCHANGED <<component, url, analyzed, targetUrl, html, peekVars, callVars, dlVars>>

\* fetchWithProxy throws for a style sheet: catch { }, and the loop goes on
CssFailed(outcome) ==
    /\ component = "App"
    /\ pc = "css"
    /\ Pending
    /\ FetchWithProxyStep(CurK, outcome).act = "throw"
    /\ ExtractFontsFrom(fontMap, Tail(jobs), Thrown(calls), Settled(netlog, outcome), html)
    /\ UNCHANGED <<component, url, analyzed, targetUrl, html, peekVars, callVars, dlVars>>

AppNext ==
    \/ \E v \in UserInputs : SetUrl(v)
    \/ AnalyzeEmpty
    \/ AnalyzeStart
    \/ \E outcome \in Outcomes : RelayNext(outcome)
    \/ \E outcome \in Outcomes : PageFetched(outcome)
    \/ \E outcome \in Outcomes : PageFailed(outcome)
    \/ \E outcome \in Outcomes : CssFetched(outcome)
    \/ \E outcome \in Outcomes : CssFailed(outcome)


\* ------------------------------------------------------------------------
\* FontPeek: analyze, groupFontsByFamily; fontExtractor: extractFontsFromCSS
\* ------------------------------------------------------------------------

\* `${font.family}-${font.weight}-${font.style}`
FontKey(font) == font.family \o <<"-">> \o font.weight \o <<"-">> \o font.style

\* The reduce with acc.set(key, font) done for every font: the last font of a
\* key replaces the first
RECURSIVE UniqueFontsLastWins(_, _)
UniqueFontsLastWins(acc, list) ==
    IF list = <<>> THEN acc
    ELSE UniqueFontsLastWins(
             IF \E i \in 1..Len(acc) : FontKey(acc[i]) = FontKey(Head(list))
             THEN [i \in 1..Len(acc) |->
                      IF FontKey(acc[i]) = FontKey(Head(list)) THEN Head(list) ELSE acc[i]]
             ELSE Append(acc, Head(list)),
             Tail(list))

\* fonts.reduce((acc, font) => { if (!acc.has(key)) acc.set(key, font) }, new Map())
\* and Array.from(uniqueFonts.values()): the Map in insertion order
RECURSIVE UniqueFonts(_, _)
UniqueFonts(acc, list) ==
    IF list = <<>> THEN acc
    ELSE UniqueFonts(
             IF \E i \in 1..Len(acc) : FontKey(acc[i]) = FontKey(Head(list))
             THEN acc ELSE Append(acc, Head(list)),
             Tail(list))

Dedupe(list) == UniqueFonts(<<>>, list)

\* groupFontsByFamily assigning weights = [w] where it should push
RECURSIVE GroupIntoOverwrite(_, _)
GroupIntoOverwrite(grouped, list) ==
    IF list = <<>> THEN grouped
    ELSE LET font == Head(list)
             g == IF \E i \in 1..Len(grouped) : grouped[i].family = font.family
                  THEN grouped
                  ELSE Append(grouped, [family |-> font.family, source |-> font.source,
                                        weights |-> <<>>])
             i == CHOOSE i \in 1..Len(g) : g[i].family = font.family
         IN  GroupIntoOverwrite(
                 [g EXCEPT ![i].weights =
                     <<[weight |-> font.weight, style |-> font.style, url |-> font.url]>>],
                 Tail(list))

\* groupFontsByFamily: a Map from family to its group, in insertion order
RECURSIVE GroupInto(_, _)
GroupInto(grouped, list) ==
    IF list = <<>> THEN grouped
    ELSE LET font == Head(list)
             g == IF \E i \in 1..Len(grouped) : grouped[i].family = font.family
                  THEN grouped
                  ELSE Append(grouped, [family |-> font.family, source |-> font.source,
                                        weights |-> <<>>])
             i == CHOOSE i \in 1..Len(g) : g[i].family = font.family
         IN  GroupInto(
                 [g EXCEPT ![i].weights =
                     Append(g[i].weights, [weight |-> font.weight, style |-> font.style,
                                           url |-> font.url])],
                 Tail(list))

GroupFontsByFamily(list) == GroupInto(<<>>, list)

\* The relay extractFontsFromCSS fetches through (useCorsProxy = true)
AllOrigins == "https://api.allorigins.win/raw?url="

\* html.includes(...) of the bot protection check
BotMarkers == {"Pardon Our Interruption", "Cloudflare", "captcha", "_Incapsula_"}

BotMessage == "Site is protected by anti-bot measures. Try using a different URL or the demo."

\* doc.querySelectorAll('link[rel="stylesheet"], link[rel="preload"][as="style"]'),
\* each href resolved against url; an href that does not resolve is skipped
StylesheetUrls(elems, baseUrl) ==
    LET links == SelectSeq(elems, LAMBDA e :
                     /\ e.tag = "link"
                     /\ e.rel = "stylesheet" \/ (e.rel = "preload" /\ e.as = "style")
                     /\ e.href # <<>>
                     /\ ResolveUrl(e.href, baseUrl).ok)
    IN  [i \in 1..Len(links) |-> Href(ResolveUrl(links[i].href, baseUrl))]

\* inlineStyles.forEach: fonts.push(...parseFontFaces(style.textContent || '', url))
RECURSIVE InlineFonts(_, _)
InlineFonts(styles, baseUrl) ==
    IF styles = <<>> THEN <<>>
    ELSE ParseFontFaces(Head(styles).text, baseUrl) \o InlineFonts(Tail(styles), baseUrl)

\* googleFontsLinks.forEach: fonts.push(...parseGoogleFontsUrl(href))
RECURSIVE GoogleFonts(_)
GoogleFonts(links) ==
    IF links = <<>> THEN <<>>
    ELSE (IF Head(links).href # <<>> THEN ParseGoogleFontsUrl(Head(links).href) ELSE <<>>)
         \o GoogleFonts(Tail(links))

\* A failed style sheet taking with it what was collected before it
SheetFontsLost(fs, outcome, sheet) ==
    IF outcome = "ok" THEN fs \o ParseFontFaces(BodyOf(sheet).css, sheet) ELSE <<>>

\* if (cssResponse.ok) fonts.push(...parseFontFaces(cssText, stylesheetUrl)),
\* and nothing for another status or in the catch
SheetFonts(fs, outcome, sheet) ==
    IF outcome = "ok" THEN fs \o ParseFontFaces(BodyOf(sheet).css, sheet) ELSE fs

\* onChange of the URL box of FontPeek, disabled while loading
PeekSetUrl(v) ==
    /\ component = "FontPeek"
    /\ ResultsUntouched
    /\ ~isLoading
    /\ pkUrl' = v
    /\ UNCHANGED <<component, appVars, frameVars, netVars, pkFonts, isLoading, alerts,
                   found, callVars, dlVars>>

\* analyze of FontPeek with nothing typed: if (!url.trim()) return
PeekAnalyzeEmpty ==
    /\ component = "FontPeek"
    /\ ResultsUntouched
    /\ ~isLoading
    /\ Trim(pkUrl) = <<>>
    /\ UNCHANGED vars

\* analyze of FontPeek up to the first await of extractFontsFromCSS(url)
PeekAnalyzeStart ==
    /\ component = "FontPeek"
    /\ ResultsUntouched
    /\ ~isLoading
    /\ Trim(pkUrl) # <<>>
    /\ isLoading' = TRUE
    /\ targetUrl' = pkUrl
    /\ netlog' = <<[call |-> 0, via |-> AllOrigins, target |-> pkUrl, outcome |-> "pending"]>>
    /\ calls' = <<>>
    /\ pc' = "page"
    /\ html' = NoPage
    /\ jobs' = <<>>
    /\ found' = <<>>
    /\ alerts' = ""
    /\ UNCHANGED <<component, appVars, fontMap, pkUrl, pkFonts, callVars, dlVars>>

\* extractFontsFromCSS throws: catch { alert(...); setFonts([]) } finally
\* { setIsLoading(false) }
PeekThrown(message, log) ==
    /\ alerts' = message
    /\ pkFonts' = <<>>
    /\ isLoading' = FALSE
    /\ pc' = "done"
    /\ netlog' = log
    /\ UNCHANGED <<html, jobs, found>>

\* extractFontsFromCSS from the top of a turn of the style sheet loop: the
\* next style sheet is fetched, or, the loop done, the Google links are
\* parsed, the fonts deduplicated and returned, and analyze groups them.
PeekSheetsFrom(fs, js, log, doc) ==
    IF js # <<>>
    THEN /\ pc' = "css"
         /\ jobs' = js
         /\ found' = fs
         /\ netlog' = Append(log, [call |-> 0, via |-> AllOrigins, target |-> Head(js),
                                   outcome |-> "pending"])
         /\ UNCHANGED <<pkFonts, isLoading, alerts>>
    ELSE LET all == fs \o GoogleFonts(SelectSeq(doc.elems, IsGoogleLink))
             extractedFonts == Dedupe(all)
         IN  /\ pc' = "done"
             /\ jobs' = <<>>
             /\ found' = all
             /\ netlog' = log
             /\ pkFonts' = GroupFontsByFamily(extractedFonts)
             /\ isLoading' = FALSE
             /\ UNCHANGED alerts

\* The page arrives with a 2xx status
PeekPageFetched ==
    /\ component = "FontPeek"
    /\ pc = "page"
    /\ Pending
    /\ html' = BodyOf(targetUrl).page
    /\ IF html'.markers \cap BotMarkers # {}
       THEN /\ alerts' = BotMessage
            /\ pkFonts' = <<>>
            /\ isLoading' = FALSE
            /\ pc' = "done"
            /\ netlog' = Settled(netlog, "ok")
            /\ UNCHANGED <<jobs, found>>
       ELSE PeekSheetsFrom(InlineFonts(InlineStyles(html'.elems), targetUrl),
                           StylesheetUrls(html'.elems, targetUrl),
                           Settled(netlog, "ok"), html')
    /\ UNCHANGED <<component, appVars, targetUrl, fontMap, calls, pkUrl, callVars, dlVars>>

\* The page request fails: fetch rejects, or !response.ok throws
PeekPageFailed(outcome) ==
    /\ component = "FontPeek"
    /\ pc = "page"
    /\ Pending
    /\ outcome # "ok"
    /\ PeekThrown(IF outcome = "non2xx" THEN "Failed to fetch: status" ELSE "TypeError",
                  Settled(netlog, outcome))
    /\ UNCHANGED <<component, appVars, targetUrl, fontMap, calls, pkUrl, callVars, dlVars>>

\* A style sheet request ends: parsed if cssResponse.ok, skipped otherwise
PeekCssSettled(outcome) ==
    /\ component = "FontPeek"
    /\ pc = "css"
    /\ Pending
    /\ PeekSheetsFrom(SheetFonts(found, outcome, Head(jobs)),
                      Tail(jobs), Settled(netlog, outcome), html)
    /\ UNCHANGED <<component, appVars, targetUrl, html, fontMap, calls, pkUrl, callVars, dlVars>>

PeekNext ==
    \/ \E v \in UserInputs : PeekSetUrl(v)
    \/ PeekAnalyzeEmpty
    \/ PeekAnalyzeStart
    \/ PeekPageFetched
    \/ \E outcome \in Outcomes : PeekPageFailed(outcome)
    \/ \E outcome \in Outcomes : PeekCssSettled(outcome)

\* ------------------------------------------------------------------------
\* App: convertFont, download; FontFamily: download, downloadAll
\* ------------------------------------------------------------------------

\* The most groups a page of the model shows, and weights a group holds
MaxShown == 3

\* type TargetFormat of App; type Format of FontFamily
TargetFormats == {<<f>> : f \in {"original", "woff2", "woff", "ttf", "otf"}}
Formats == {<<f>> : f \in {"woff2", "woff", "ttf", "otf"}}

\* The characters /[^a-zA-Z0-9]/ matches, each a lexeme of its own
NonAlnum == WS \cup Quotes \cup {".", ",", "-", "+", ":", ";", "/", "?", "=", "&", "|"}

\* family.replace(/[^a-zA-Z0-9]/g, '-')
Sanitize(family) ==
    [i \in 1..Len(family) |-> IF family[i] \in NonAlnum THEN "-" ELSE family[i]]

\* sourceFormat.replace('-', ''): the first hyphen only
RemoveFirstHyphen(s) ==
    LET i == IndexOfFrom(s, 1, {"-"})
    IN  IF i = 0 THEN s ELSE SubSeq(s, 1, i - 1) \o SubSeq(s, i + 1, Len(s))

\* formatMap[fmt] || otherwise
FormatType(fmt, otherwise) ==
    CASE fmt \in {<<"ttf">>, <<"truetype">>} -> "ttf"
      [] fmt \in {<<"otf">>, <<"opentype">>} -> "otf"
      [] fmt = <<"woff">> -> "woff"
      [] fmt = <<"woff2">> -> "woff2"
      [] fmt = <<"eot">> -> "eot"
      [] OTHER -> otherwise

\* convertFont naming the file after the target format whatever it returns
ConvertFontTargetExt(sourceFormat, targetFormat, converts) ==
    LET srcFmt == RemoveFirstHyphen(ToLowerCase(sourceFormat))
        tgtFmt == ToLowerCase(targetFormat)
        asIs == [data |-> "fetched",
                 ext |-> IF tgtFmt = <<"original">>
                         THEN (IF srcFmt # <<>> THEN srcFmt ELSE <<"woff2">>) ELSE tgtFmt]
    IN  IF tgtFmt = <<"original">> \/ srcFmt = tgtFmt THEN asIs
        ELSE IF FormatType(srcFmt, "woff2") = "woff2" \/ FormatType(tgtFmt, "ttf") = "woff2"
        THEN asIs
        ELSE IF converts THEN [data |-> "converted", ext |-> tgtFmt]
        ELSE asIs

\* convertFont(buffer, sourceFormat, targetFormat): the fetched bytes under
\* the source format, or, when fonteditor-core reads and writes the font
\* (converts), the converted bytes under the target format
ConvertFont(sourceFormat, targetFormat, converts) ==
    LET srcFmt == RemoveFirstHyphen(ToLowerCase(sourceFormat))
        tgtFmt == ToLowerCase(targetFormat)
        asIs == [data |-> "fetched", ext |-> IF srcFmt # <<>> THEN srcFmt ELSE <<"woff2">>]
    IN  IF tgtFmt = <<"original">> \/ srcFmt = tgtFmt THEN asIs
        ELSE IF FormatType(srcFmt, "woff2") = "woff2" \/ FormatType(tgtFmt, "ttf") = "woff2"
        THEN asIs
        ELSE IF converts THEN [data |-> "converted", ext |-> tgtFmt]
        ELSE asIs

\* a.download = `${family.replace(...)}-${weight}.${ext}` with the Blob of data
AppFile(d, converted) ==
    [name |-> Sanitize(d.family) \o <<"-">> \o d.weight \o <<".">> \o converted.ext,
     data |-> converted.data]

\* saveAs(blob, `${family.family}-${weight.weight}${italic ? '-italic' : ''}.${selectedFormat}`)
PeekFile(d) ==
    [name |-> d.family \o <<"-">> \o d.weight
              \o (IF d.style = <<"italic">> THEN <<"-italic">> ELSE <<>>)
              \o <<".">> \o d.target,
     data |-> "fetched"]

\* fetch(fontUrl), without a relay
DirectRequest(target) == [via |-> "", target |-> target, outcome |-> "pending"]

\* A download call is awaiting a response
Downloading == dl.pc \in {"direct", "relay"}

\* The format buttons of App, rendered when fonts.length > 0
SetSelectedFormat(f) ==
    /\ component = "App"
    /\ ~Analyzing
    /\ fonts # <<>>
    /\ dl = NoDownload
    /\ selectedFormat' = f
    /\ UNCHANGED <<component, appVars, frameVars, netVars, peekVars, callVars,
                   dl, dlog, saved, opened, rowVars, previewVars>>

\* const downloadKey = `${family}-${weight}`
DownloadKey(family, weight) == family \o <<"-">> \o weight

\* The download button of weight i of group g of App, up to the first await:
\* setConverting(key) and fetch(fontUrl). The button of a key is disabled
\* while that key is converting; the model follows one download at a time.
AppDownload(g, i) ==
    /\ component = "App"
    /\ ~Analyzing
    /\ ~Downloading
    /\ g \in 1..Len(fonts)
    /\ i \in 1..Len(fonts[g].weights)
    /\ dl' = [NoDownload EXCEPT !.pc = "direct",
                                !.url = fonts[g].weights[i].url,
                                !.family = fonts[g].family,
                                !.weight = fonts[g].weights[i].weight,
                                !.style = fonts[g].weights[i].style,
                                !.format = fonts[g].weights[i].format,
                                !.target = selectedFormat]
    /\ dlog' = <<DirectRequest(fonts[g].weights[i].url)>>
    /\ saved' = <<>>
    /\ opened' = <<>>
    /\ converting' = DownloadKey(fonts[g].family, fonts[g].weights[i].weight)
    /\ UNCHANGED <<component, appVars, frameVars, netVars, peekVars, callVars,
                   selectedFormat, flights, previewVars>>

\* The bytes have arrived: convertFont, the file is saved, finally
\* setConverting(null)
AppSave(log, converts) ==
    /\ dlog' = log
    /\ saved' = <<AppFile(dl, ConvertFont(dl.format, dl.target, converts))>>
    /\ dl' = [dl EXCEPT !.pc = "done"]
    /\ converting' = NoKey
    /\ UNCHANGED opened

\* The direct request ends: the blob is taken if directResponse.ok, and
\* fetchWithProxy(fontUrl) is called otherwise
AppDirectSettled(outcome) ==
    /\ component = "App"
    /\ ~Analyzing
    /\ dl.pc = "direct"
    /\ IF outcome = "ok"
       THEN \E converts \in BOOLEAN : AppSave(Settled(dlog, outcome), converts)
       ELSE /\ dlog' = Append(Settled(dlog, outcome),
                              [via |-> CORS_PROXIES[1], target |-> dl.url,
                               outcome |-> "pending"])
            /\ dl' = [dl EXCEPT !.pc = "relay"]
            /\ UNCHANGED <<saved, opened, converting>>
    /\ UNCHANGED <<component, appVars, frameVars, netVars, peekVars, callVars,
                   selectedFormat, flights, previewVars>>

\* A relay request of the download ends: fetchWithProxy returns the response,
\* goes on to the next relay, or throws into the catch of download, which
\* opens the URL in a new window
AppRelaySettled(outcome) ==
    /\ component = "App"
    /\ ~Analyzing
    /\ dl.pc = "relay"
    /\ CASE FetchWithProxyStep(Len(dlog) - 1, outcome).act = "return" ->
                \E converts \in BOOLEAN : AppSave(Settled(dlog, outcome), converts)
         [] FetchWithProxyStep(Len(dlog) - 1, outcome).act = "next" ->
                /\ dlog' = Append(Settled(dlog, outcome),
                                  [via |-> CORS_PROXIES[FetchWithProxyStep(Len(dlog) - 1,
                                                                           outcome).k],
                                   target |-> dl.url, outcome |-> "pending"])
                /\ UNCHANGED <<dl, saved, opened, converting>>
         [] OTHER ->
                /\ dlog' = Settled(dlog, outcome)
                /\ opened' = <<dl.url>>
                /\ dl' = [dl EXCEPT !.pc = "done"]
                /\ converting' = NoKey
                /\ UNCHANGED saved
    /\ UNCHANGED <<component, appVars, frameVars, netVars, peekVars, callVars,
                   selectedFormat, flights, previewVars>>

\* The format buttons of a family panel of FontPeek
PeekSetSelectedFormat(f) ==
    /\ component = "FontPeek"
    /\ ~Analyzing
    /\ pkFonts # <<>>
    /\ dl = NoDownload
    /\ selectedFormat' = f
    /\ UNCHANGED <<component, appVars, frameVars, netVars, peekVars, callVars,
                   dl, dlog, saved, opened, rowVars, previewVars>>

\* download without its first line
HasUrlAlways(weight) == TRUE

\* if (!weight.url) return
HasUrl(weight) == weight.url # NoUrl

\* The first of the weights ws that download(w) does not return from at
\* once, 0 when there is none
FirstWithUrl(ws) ==
    IF \E i \in 1..Len(ws) : HasUrl(ws[i])
    THEN CHOOSE i \in 1..Len(ws) : HasUrl(ws[i]) /\ \A k \in 1..(i - 1) : ~HasUrl(ws[k])
    ELSE 0

\* download(w) for the weights ws of a family in turn, up to the next await:
\* a weight without url returns at once, a weight with one is asked for
PeekDownloadFrom(d, ws, k, log, files) ==
    /\ dlog' = IF k = 0 THEN log ELSE Append(log, DirectRequest(ws[k].url))
    /\ saved' = files
    /\ dl' = IF k = 0 THEN [d EXCEPT !.pc = "done", !.rest = <<>>]
             ELSE [d EXCEPT !.pc = "direct", !.url = ws[k].url, !.weight = ws[k].weight,
                            !.style = ws[k].style, !.rest = SubSeq(ws, k + 1, Len(ws))]

\* The download button of weight i of the panel of group g
PeekDownload(g, i) ==
    /\ component = "FontPeek"
    /\ ~Analyzing
    /\ ~Downloading
    /\ g \in 1..Len(pkFonts)
    /\ i \in 1..Len(pkFonts[g].weights)
    /\ PeekDownloadFrom([NoDownload EXCEPT !.family = pkFonts[g].family,
                                           !.weight = pkFonts[g].weights[i].weight,
                                           !.style = pkFonts[g].weights[i].style,
                                           !.target = selectedFormat],
                        <<pkFonts[g].weights[i]>>, FirstWithUrl(<<pkFonts[g].weights[i]>>),
                        <<>>, <<>>)
    /\ opened' = <<>>
    /\ UNCHANGED <<component, appVars, frameVars, netVars, peekVars, callVars,
                   selectedFormat, rowVars, previewVars>>

\* "Download all" of the panel of group g: for (const w of family.weights)
\* await download(w)
PeekDownloadAll(g) ==
    /\ component = "FontPeek"
    /\ ~Analyzing
    /\ ~Downloading
    /\ g \in 1..Len(pkFonts)
    /\ PeekDownloadFrom([NoDownload EXCEPT !.family = pkFonts[g].family,
                                           !.target = selectedFormat],
                        pkFonts[g].weights, FirstWithUrl(pkFonts[g].weights), <<>>, <<>>)
    /\ opened' = <<>>
    /\ UNCHANGED <<component, appVars, frameVars, netVars, peekVars, callVars,
                   selectedFormat, rowVars, previewVars>>

\* fetch(weight.url) ends: res.blob() is saved whatever the status, a
\* rejected fetch gives alert('Download failed'); then the next weight
PeekDownloadSettled(outcome) ==
    /\ component = "FontPeek"
    /\ ~Analyzing
    /\ dl.pc = "direct"
    /\ PeekDownloadFrom(IF outcome = "error" THEN [dl EXCEPT !.alert = "Download failed"]
                        ELSE dl,
                        dl.rest, FirstWithUrl(dl.rest), Settled(dlog, outcome),
                        IF outcome = "error" THEN saved ELSE Append(saved, PeekFile(dl)))
    /\ UNCHANGED <<component, appVars, frameVars, netVars, peekVars, callVars,
                   selectedFormat, opened, rowVars, previewVars>>

DownloadNext ==
    \/ \E f \in TargetFormats : SetSelectedFormat(f)
    \/ \E g, i \in 1..MaxShown : AppDownload(g, i)
    \/ \E outcome \in Outcomes : AppDirectSettled(outcome)
    \/ \E outcome \in Outcomes : AppRelaySettled(outcome)
    \/ \E f \in Formats : PeekSetSelectedFormat(f)
    \/ \E g, i \in 1..MaxShown : PeekDownload(g, i)
    \/ \E g \in 1..MaxShown : PeekDownloadAll(g)
    \/ \E outcome \in Outcomes : PeekDownloadSettled(outcome)

\* ------------------------------------------------------------------------
\* The components, from construction
\* ------------------------------------------------------------------------

NoInput == [kind |-> "none"]

InitState ==
    /\ url = <<>>
    /\ fonts = <<>>
    /\ loading = FALSE
    /\ error = ""
    /\ analyzed = FALSE
    /\ pc = "idle"
    /\ targetUrl = <<>>
    /\ html = NoPage
    /\ jobs = <<>>
    /\ fontMap = <<>>
    /\ calls = <<>>
    /\ netlog = <<>>
    /\ pkUrl = <<>>
    /\ pkFonts = <<>>
    /\ isLoading = FALSE
    /\ alerts = ""
    /\ found = <<>>
    /\ op = "none"
    /\ out = <<>>
    /\ selectedFormat = IF component = "FontPeek" THEN <<"woff2">> ELSE <<"original">>
    /\ dl = NoDownload
    /\ dlog = <<>>
    /\ saved = <<>>
    /\ opened = <<>>
    /\ converting = NoKey
    /\ flights = <<>>
    /\ loadedFonts = {}
    /\ documentFonts = <<>>
    /\ runs = <<>>
    /\ effectFonts = <<>>

Init ==
    /\ component \in {"App", "FontPeek"}
    /\ input = NoInput
    /\ InitState

Next == AppNext \/ PeekNext \/ DownloadNext

Spec == Init /\ [][Next]_vars

\* ------------------------------------------------------------------------
\* App: download calls that overlap
\* ------------------------------------------------------------------------

\* The most download calls of App in flight at a time
MaxFlights == 2

\* The download button of weight i of group g of App, pressed whatever other
\* downloads are in flight (the button is disabled only while converting is
\* the key of its row), the call followed for what it does to converting:
\* setConverting(downloadKey) before its first await
DownloadCall(g, i) ==
    /\ component = "App"
    /\ ~Analyzing
    /\ dl = NoDownload
    /\ Len(flights) < MaxFlights
    /\ g \in 1..Len(fonts)
    /\ i \in 1..Len(fonts[g].weights)
    /\ converting # DownloadKey(fonts[g].family, fonts[g].weights[i].weight)
    /\ converting' = DownloadKey(fonts[g].family, fonts[g].weights[i].weight)
    /\ flights' = Append(flights,
                         [g |-> g, i |-> i,
                          key |-> DownloadKey(fonts[g].family, fonts[g].weights[i].weight)])
    /\ UNCHANGED <<component, appVars, frameVars, netVars, peekVars, callVars,
                   selectedFormat, dl, dlog, saved, opened, previewVars>>

\* The download call k in flight ends, its file saved or its URL opened:
\* finally { setConverting(null) }
DownloadCallEnds(k) ==
    /\ component = "App"
    /\ ~Analyzing
    /\ k \in 1..Len(flights)
    /\ converting' = NoKey
    /\ flights' = SubSeq(flights, 1, k - 1) \o SubSeq(flights, k + 1, Len(flights))
    /\ UNCHANGED <<component, appVars, frameVars, netVars, peekVars, callVars,
                   selectedFormat, dl, dlog, saved, opened, previewVars>>

RowsNext ==
    \/ \E g, i \in 1..MaxShown : DownloadCall(g, i)
    \/ \E k \in 1..MaxFlights : DownloadCallEnds(k)

InitApp ==
    /\ component = "App"
    /\ input = NoInput
    /\ InitState

NextRows == AppNext \/ RowsNext

\* The sessions of App with the downloads of its rows overlapping
SpecRows == InitApp /\ [][NextRows]_vars

\* ------------------------------------------------------------------------
\* App: loadFontForPreview and the effect that loads the preview fonts
\* ------------------------------------------------------------------------

\* const fontId = `${family}-${weight}-${style}`
FontId(family, w) == family \o <<"-">> \o w.weight \o <<"-">> \o w.style

\* for (const fontGroup of fonts) for (const w of fontGroup.weights): the
\* preview fonts of a result in loop order
RECURSIVE PreviewFonts(_)
PreviewFonts(groups) ==
    IF groups = <<>> THEN <<>>
    ELSE [i \in 1..Len(Head(groups).weights) |->
             [id |-> FontId(Head(groups).family, Head(groups).weights[i]),
              url |-> Head(groups).weights[i].url]]
         \o PreviewFonts(Tail(groups))

\* for (const font of document.fonts) if (font.family === fontId) return
Registered(faces, id) == \E n \in 1..Len(faces) : faces[n] = id

\* loadAllFonts from the top of a loop turn to its next await of a load, or
\* to its end. has is the loadedFonts of the render the effect ran in. A font
\* in has is passed over; for another, loadFontForPreview returns at once if
\* document.fonts (faces) holds the id, and the id joins loadedFonts (loaded).
\* What is returned: the fonts left, the first of them being loaded, and
\* loadedFonts.
RECURSIVE LoadAllFontsFrom(_, _, _, _)
LoadAllFontsFrom(has, rest, loaded, faces) ==
    IF rest = <<>> THEN [rest |-> <<>>, loaded |-> loaded]
    ELSE IF Head(rest).id \in has
    THEN LoadAllFontsFrom(has, Tail(rest), loaded, faces)
    ELSE IF Registered(faces, Head(rest).id)
    THEN LoadAllFontsFrom(has, Tail(rest), loaded \cup {Head(rest).id}, faces)
    ELSE [rest |-> rest, loaded |-> loaded]

\* The runs with run k gone on to the fonts in rest, or ended
RunsAfter(k, rest) ==
    IF rest = <<>>
    THEN SubSeq(runs, 1, k - 1) \o SubSeq(runs, k + 1, Len(runs))
    ELSE [runs EXCEPT ![k] = [@ EXCEPT !.rest = rest, !.pc = "direct"]]

\* loadFontForPreview has ended for the font run k was loading, with
\* document.fonts as in faces: setLoadedFonts(prev => new Set(prev).add(fontId)),
\* whatever loadFontForPreview did, and the loop goes on
AfterLoad(k, faces) ==
    LoadAllFontsFrom(runs[k].has, Tail(runs[k].rest),
                     loadedFonts \cup {Head(runs[k].rest).id}, faces)

\* Every request of the analysis was answered at the first attempt
AnsweredAtOnce == \A n \in 1..Len(netlog) : netlog[n].outcome = "ok"

\* useEffect(() => { loadAllFonts() }, [fonts]): a render with a new value of
\* fonts has been committed, and loadAllFonts runs to its first await. The
\* runs are followed for the results of analyses answered at once.
PreviewEffect ==
    /\ component = "App"
    /\ fonts # effectFonts
    /\ fonts # <<>> => AnsweredAtOnce
    /\ Len(runs) < MaxRuns
    /\ effectFonts' = fonts
    /\ loadedFonts' =
           LoadAllFontsFrom(loadedFonts, PreviewFonts(fonts), loadedFonts,
                            documentFonts).loaded
    /\ runs' =
           IF LoadAllFontsFrom(loadedFonts, PreviewFonts(fonts), loadedFonts,
                               documentFonts).rest = <<>>
           THEN runs
           ELSE Append(runs,
                       [has |-> loadedFonts, pc |-> "direct",
                        rest |-> LoadAllFontsFrom(loadedFonts, PreviewFonts(fonts),
                                                  loadedFonts, documentFonts).rest])
    /\ UNCHANGED <<component, appVars, frameVars, netVars, peekVars, callVars,
                   selectedFormat, dl, dlog, saved, opened, rowVars, documentFonts>>

\* The font is loaded, from its URL or from the blob a relay gave:
\* document.fonts.add(fontFace), and the loop of the run goes on
PreviewLoaded(k) ==
    /\ component = "App"
    /\ ~Analyzing
    /\ k \in 1..Len(runs)
    /\ documentFonts' = Append(documentFonts, Head(runs[k].rest).id)
    /\ loadedFonts' = AfterLoad(k, documentFonts').loaded
    /\ runs' = RunsAfter(k, AfterLoad(k, documentFonts').rest)
    /\ UNCHANGED <<component, appVars, frameVars, netVars, peekVars, callVars,
                   selectedFormat, dl, dlog, saved, opened, rowVars, effectFonts>>

\* fontFace.load() rejects for the URL itself: fetchWithProxy(url) is called
PreviewDirectFailed(k) ==
    /\ component = "App"
    /\ ~Analyzing
    /\ k \in 1..Len(runs)
    /\ runs[k].pc = "direct"
    /\ runs' = [runs EXCEPT ![k].pc = "proxy"]
    /\ UNCHANGED <<component, appVars, frameVars, netVars, peekVars, callVars,
                   selectedFormat, dl, dlog, saved, opened, rowVars, loadedFonts,
                   documentFonts, effectFonts>>

\* fetchWithProxy throws, or the load of the blob rejects: the outer catch
\* warns and loadFontForPreview returns, nothing added to document.fonts
PreviewProxyFailed(k) ==
    /\ component = "App"
    /\ ~Analyzing
    /\ k \in 1..Len(runs)
    /\ runs[k].pc = "proxy"
    /\ loadedFonts' = AfterLoad(k, documentFonts).loaded
    /\ runs' = RunsAfter(k, AfterLoad(k, documentFonts).rest)
    /\ UNCHANGED <<component, appVars, frameVars, netVars, peekVars, callVars,
                   selectedFormat, dl, dlog, saved, opened, rowVars, documentFonts,
                   effectFonts>>

PreviewNext ==
    \/ PreviewEffect
    \/ \E k \in 1..MaxRuns : PreviewLoaded(k)
    \/ \E k \in 1..MaxRuns : PreviewDirectFailed(k)
    \/ \E k \in 1..MaxRuns : PreviewProxyFailed(k)

NextPreview == AppNext \/ PreviewNext

\* The sessions of App with the preview fonts of its results being loaded
SpecPreview == InitApp /\ [][NextPreview]_vars

\* A fetch that is outstanding resolves or rejects: the request gets its
\* outcome, and the code that awaited it may have issued the next request
FetchSettles ==
    /\ Pending
    /\ \E outcome \in Outcomes :
           \/ netlog' = Settled(netlog, outcome)
           \/ /\ Len(netlog') = Len(netlog) + 1
              /\ SubSeq(netlog', 1, Len(netlog)) = Settled(netlog, outcome)

\* The sessions in which every fetch of an analysis has an end
FairSpec == Init /\ [][Next]_vars /\ WF_netlog(FetchSettles)


\* ------------------------------------------------------------------------
\* fetchWithProxy: the relays
\* ------------------------------------------------------------------------

\* The requests fetchWithProxy call c made, in the order it made them
RequestsOf(c) == SelectSeq(netlog, LAMBDA r : r.call = c)

Failed(r) == r.outcome \in {"non2xx", "error"}

AllRelaysFailed(c) ==
    /\ Len(RequestsOf(c)) = Len(CORS_PROXIES)
    /\ \A j \in 1..Len(RequestsOf(c)) : Failed(RequestsOf(c)[j])

\* C1: every fetchWithProxy call contacts the relays of CORS_PROXIES in list
\* order, each at most once, all for the call's target; every relay contacted
\* before the last one failed; the call returns a response exactly when the
\* last relay it contacted answered 2xx, and that relay's response is the one
\* returned.
C1_RelaysInOrder ==
    component = "App" =>
        \A c \in 1..Len(calls) :
            /\ Len(RequestsOf(c)) \in 1..Len(CORS_PROXIES)
            /\ \A j \in 1..Len(RequestsOf(c)) :
                   /\ RequestsOf(c)[j].via = CORS_PROXIES[j]
                   /\ RequestsOf(c)[j].target = calls[c].target
                   /\ j < Len(RequestsOf(c)) => Failed(RequestsOf(c)[j])
            /\ calls[c].result = "response"
                   <=> RequestsOf(c)[Len(RequestsOf(c))].outcome = "ok"
            /\ calls[c].result = "response"
                   => calls[c].via = RequestsOf(c)[Len(RequestsOf(c))].via

\* The first relay failed and the second one answered 2xx
C1_Witness ==
    /\ component = "App"
    /\ \E c \in 1..Len(calls) :
           /\ Len(RequestsOf(c)) = Len(CORS_PROXIES)
           /\ Failed(RequestsOf(c)[1])
           /\ calls[c].result = "response"
           /\ calls[c].via = CORS_PROXIES[Len(CORS_PROXIES)]

\* C2 (as stated): a call all of whose relays failed throws an error that
\* contains the target URL, and returns no response.
C2_ErrorNamesTarget ==
    component = "App" =>
        \A c \in 1..Len(calls) :
            AllRelaysFailed(c) =>
                /\ calls[c].result = "thrown"
                /\ Includes(calls[c].message, calls[c].target)

\* C2 (amended): a call all of whose relays failed throws an Error whose
\* message is the fixed text 'All proxies failed', without the target URL, and
\* returns no response; a call throws only when every relay has failed.
C2_AllProxiesFailed ==
    component = "App" =>
        \A c \in 1..Len(calls) :
            /\ AllRelaysFailed(c) =>
                   /\ calls[c].result = "thrown"
                   /\ calls[c].message = <<"All", " ", "proxies", " ", "failed">>
                   /\ ~Includes(calls[c].message, calls[c].target)
                   /\ calls[c].via = ""
            /\ calls[c].result = "thrown" => AllRelaysFailed(c)

\* Both relays failed for the page
C2_Witness ==
    /\ component = "App"
    /\ calls # <<>>
    /\ AllRelaysFailed(1)
    /\ calls[1].result = "thrown"
    /\ calls[1].target # <<>>

\* ------------------------------------------------------------------------
\* analyze: how it ends
\* ------------------------------------------------------------------------

\* The page could not be fetched
PageFetchFailed ==
    IF component = "App" THEN calls # <<>> /\ calls[1].result = "thrown"
    ELSE netlog # <<>> /\ Failed(netlog[1])

\* The page was fetched and the extraction ran to its end; Merged is what it
\* collected
Extracted ==
    IF component = "App" THEN calls # <<>> /\ calls[1].result = "response"
    ELSE netlog # <<>> /\ netlog[1].outcome = "ok" /\ html.markers \cap BotMarkers = {}

Merged == IF component = "App" THEN fontMap ELSE found

\* What the user is shown
ShowsFetchFailure ==
    IF component = "App"
    THEN error = "Could not fetch page. Try a different URL." /\ fonts = <<>>
    ELSE alerts \in {"Failed to fetch: status", "TypeError"} /\ pkFonts = <<>>

ShowsNoFontsFound ==
    IF component = "App"
    THEN error = "No @font-face rules found on this page" /\ fonts = <<>>
    ELSE alerts = "" /\ pkFonts = <<>>

ShowsFonts ==
    IF component = "App" THEN error = "" /\ fonts # <<>>
    ELSE alerts = "" /\ pkFonts # <<>>

\* C3: an analyze call that has ended shows the fetch failure if the page
\* could not be fetched, the empty result if the page was fetched and nothing
\* was collected, and the fonts if something was collected; the three are
\* different things to see (in FontPeek the fetch failure is an alert and the
\* empty result is the empty list without one).
C3_OutcomesDistinct ==
    (component \in {"App", "FontPeek"} /\ pc = "done") =>
        /\ PageFetchFailed => ShowsFetchFailure /\ ~ShowsNoFontsFound /\ ~ShowsFonts
        /\ (Extracted /\ Merged = <<>>) =>
               ShowsNoFontsFound /\ ~ShowsFetchFailure /\ ~ShowsFonts
        /\ (Extracted /\ Merged # <<>>) =>
               ShowsFonts /\ ~ShowsFetchFailure /\ ~ShowsNoFontsFound

\* App has ended an analysis of a page without fonts, fetched through the
\* second relay
C3_Witness ==
    /\ component = "App"
    /\ pc = "done"
    /\ Extracted
    /\ Merged = <<>>
    /\ Len(RequestsOf(1)) = Len(CORS_PROXIES)


\* ------------------------------------------------------------------------
\* The parsers and the list functions, called on their own
\* ------------------------------------------------------------------------

\* Most @font-face blocks in a CSS text, most families in a Google Fonts
\* URL, most descriptors in a list
MaxBlocks == 2
MaxFamilies == 2
MaxDescs == 3

SeqsUpTo(S, n) == UNION {[1..k -> S] : k \in 1..n}

RECURSIVE Flatten(_)
Flatten(parts) == IF parts = <<>> THEN <<>> ELSE Head(parts) \o Flatten(Tail(parts))

\* A block as the values of its declarations, <<>> for a declaration left out
\* and the nested group that stands before the src declaration, if any
BlockOf(family, weight, style, src) ==
    [family |-> family, weight |-> weight, style |-> style, group |-> <<>>, src |-> src]

OptDecl(prop, value) == IF value = <<>> THEN <<>> ELSE Decl(prop, value)

\* The text of a block
Render(b) ==
    FontFace(OptDecl("font-family", b.family) \o OptDecl("font-weight", b.weight)
             \o OptDecl("font-style", b.style) \o b.group \o OptDecl("src", b.src))

Pair == UrlFormat(<<"a", ".", "woff2">>, "woff2")
Bare == <<"url(", "b", ".", "ttf", ")">>
UpDir == UrlFormat(<<".", ".", "/", "f", "/", "x", ".", "woff2">>, "WOFF2")

FamilyValues == {<<"Acme">>, <<" ", "'", "Beta", "'">>, <<" ">>, <<>>}
WeightValues ==
    {<<w>> : w \in {"400", "700", "1000", "normal", "bold", "bolder", "lighter", "Bold"}}
StyleValues == {<<st>> : st \in {"normal", "italic", "oblique", "ITALIC"}}
\* Two entries; an entry whose URL new URL() rejects, then a good one
TwoPairs == Pair \o <<",", " ">> \o UrlFormat(<<"c", ".", "woff">>, "woff")
NoHost == UrlFormat(<<"http:", "//">>, "woff2")
BadThenGood == NoHost \o <<",", " ">> \o Pair
SrcValues == {Bare, UpDir, TwoPairs, BadThenGood, <<>>}

\* A block with one level of nested braces before its src declaration
NestedGroup == <<"@supports", " ", "{", "font-display", ":", "swap", ";", "}">>
NestedBlock == [BlockOf(<<"Acme">>, <<>>, <<>>, Pair) EXCEPT !.group = NestedGroup]

\* The blocks the CSS inputs are made of: one declaration varied at a time
BlockPool ==
    {BlockOf(f, <<>>, <<>>, Pair) : f \in FamilyValues}
    \cup {BlockOf(<<"Acme">>, w, <<>>, Pair) : w \in WeightValues}
    \cup {BlockOf(<<"Acme">>, <<>>, st, Pair) : st \in StyleValues}
    \cup {BlockOf(<<"Acme">>, <<>>, <<>>, src) : src \in SrcValues}
    \cup {BlockOf(<<"Acme">>, <<"700">>, <<>>, Bare)}
    \cup {NestedBlock}

\* The style sheet URL the CSS inputs are parsed against
SheetUrl == Https(ExCom) \o <<"/", "css", "/", "a", ".", "css">>

\* The family specifications of the Google Fonts URLs
FamilySpecs ==
    {<<"Roboto">>, <<"Roboto", ":", "400", ",", "700", "i">>,
     <<"Open", "+", "Sans", ":", "300", "italic">>, <<":", "400">>,
     <<"Lato", ":", "1">>, <<"Lato", ":", "bold">>, <<"Lato", ":", "light">>}

GoogleUrl(specs) == Https(GoogleHost) \o <<"/", "css", "?", "family", "=">> \o Join(specs, "|")

\* Descriptors as the parsers emit them
DescPool ==
    {Desc(<<"Acme">>, <<"400">>, <<"normal">>, ExCom, Https(ExCom) \o <<"/", "a", ".", "woff2">>,
          <<"woff2">>),
     Desc(<<"Acme">>, <<"400">>, <<"normal">>, ExCom, Https(ExCom) \o <<"/", "b", ".", "ttf">>,
          <<"truetype">>),
     Desc(<<"Acme">>, <<"700">>, <<"normal">>, ExCom, Https(ExCom) \o <<"/", "a", ".", "woff2">>,
          <<"woff2">>),
     Desc(<<"Acme">>, <<"400">>, <<"italic">>, ExCom, Https(ExCom) \o <<"/", "i", ".", "woff2">>,
          <<"woff2">>),
     Desc(<<"Open", " ", "Sans">>, <<"400">>, <<"normal">>, <<"Google Fonts">>, NoUrl, <<>>),
     Desc(<<"Open", " ", "Sans">>, <<"400">>, <<"normal">>, ExCom,
          Https(ExCom) \o <<"/", "o", ".", "woff2">>, <<"woff2">>)}

Inputs ==
    {[kind |-> "css", blocks |-> bs] : bs \in SeqsUpTo(BlockPool, MaxBlocks)}
    \cup {[kind |-> "google", specs |-> sp] : sp \in SeqsUpTo(FamilySpecs, MaxFamilies)}
    \cup {[kind |-> "href", specs |-> <<sp>>] : sp \in FamilySpecs}
    \cup {[kind |-> "descs", list |-> ds] : ds \in SeqsUpTo(DescPool, MaxDescs)}

\* The CSS text of a css input
CssText(in) == Flatten([i \in 1..Len(in.blocks) |-> Render(in.blocks[i])])

Call(name, result) ==
    /\ component = "functions"
    /\ op = "none"
    /\ op' = name
    /\ out' = result
    /\ UNCHANGED <<component, appVars, frameVars, netVars, peekVars, dlVars, input>>

CallParseFontFaces ==
    /\ input.kind = "css"
    /\ Call("parseFontFaces", ParseFontFaces(CssText(input), SheetUrl))

CallAppParseFontFaces ==
    /\ input.kind = "css"
    /\ Call("App.parseFontFaces", AppParseFontFaces(CssText(input), <<>>, SheetUrl))

\* The link of a google input; an href input is the same link written
\* without its scheme ("//fonts.googleapis.com/css?family=...")
LinkUrl(in) == IF in.kind = "href" THEN Tail(GoogleUrl(in.specs)) ELSE GoogleUrl(in.specs)

CallParseGoogleFontsUrl ==
    /\ input.kind \in {"google", "href"}
    /\ Call("parseGoogleFontsUrl", ParseGoogleFontsUrl(LinkUrl(input)))

CallDedupe ==
    /\ input.kind = "descs"
    /\ Call("dedupe", Dedupe(input.list))

CallGroupFontsByFamily ==
    /\ input.kind = "descs"
    /\ Call("groupFontsByFamily", GroupFontsByFamily(input.list))

InitParse ==
    /\ component = "functions"
    /\ input \in Inputs
    /\ InitState

NextParse ==
    \/ CallParseFontFaces
    \/ CallAppParseFontFaces
    \/ CallParseGoogleFontsUrl
    \/ CallDedupe
    \/ CallGroupFontsByFamily

SpecParse == InitParse /\ [][NextParse]_vars


\* ------------------------------------------------------------------------
\* Deduplication and grouping
\* ------------------------------------------------------------------------

Key(d) == <<d.family, d.weight, d.style>>

\* The first position of list that holds the key of list[i]
FirstOf(list, i) == CHOOSE k \in 1..i : /\ Key(list[k]) = Key(list[i])
                                        /\ \A m \in 1..(k - 1) : Key(list[m]) # Key(list[i])

\* What App's parseFontFaces makes of block i alone
Solo(i) == AppParseFontFaces(Render(input.blocks[i]), <<>>, SheetUrl)

WeightKey(w) == <<w.weight, w.style>>

\* Block i alone gives family f an entry of the weight and style of w
Gives(i, f, w) ==
    /\ Solo(i) # <<>>
    /\ Solo(i)[1].family = f
    /\ WeightKey(Solo(i)[1].weights[1]) = WeightKey(w)

\* The first block of the input that does
FirstBlock(f, w) ==
    CHOOSE i \in 1..Len(input.blocks) :
        Gives(i, f, w) /\ \A m \in 1..(i - 1) : ~Gives(m, f, w)

\* C4: the deduplicated list holds no two descriptors of the same family,
\* weight and style, and holds, for every key of the merged list, exactly the
\* first descriptor of that key, url included; in the Map App's parseFontFaces
\* builds no family occurs twice, no family holds two entries of the same
\* weight and style, and each entry is the one of the first block giving it.
C4_FirstOccurrenceKept ==
    /\ (component = "functions" /\ op = "dedupe") =>
           /\ \A i, j \in 1..Len(out) : Key(out[i]) = Key(out[j]) => i = j
           /\ \A i \in 1..Len(input.list) :
                  \E j \in 1..Len(out) : out[j] = input.list[FirstOf(input.list, i)]
           /\ \A j \in 1..Len(out) :
                  \E i \in 1..Len(input.list) :
                      FirstOf(input.list, i) = i /\ out[j] = input.list[i]
    /\ (component = "functions" /\ op = "App.parseFontFaces") =>
           /\ \A i, j \in 1..Len(out) : out[i].family = out[j].family => i = j
           /\ \A e \in 1..Len(out) :
                  /\ \A i, j \in 1..Len(out[e].weights) :
                         WeightKey(out[e].weights[i]) = WeightKey(out[e].weights[j]) => i = j
                  /\ \A i \in 1..Len(out[e].weights) :
                         /\ \E b \in 1..Len(input.blocks) :
                                Gives(b, out[e].family, out[e].weights[i])
                         /\ out[e].weights[i]
                                = Solo(FirstBlock(out[e].family,
                                                  out[e].weights[i]))[1].weights[1]

\* Two descriptors of one key with different urls were merged, the first kept
C4_Witness ==
    /\ component = "functions"
    /\ op = "dedupe"
    /\ Len(input.list) >= 2
    /\ Key(input.list[1]) = Key(input.list[2])
    /\ input.list[1].url # input.list[2].url
    /\ out[1] = input.list[1]
    /\ Len(out) < Len(input.list)

IsFirstOfFamily(list, i) == \A k \in 1..(i - 1) : list[k].family # list[i].family

\* The families of list in the order of their first occurrence
FamilyOrder(list) ==
    LET firsts == SelectSeq([i \in 1..Len(list) |-> i], LAMBDA i : IsFirstOfFamily(list, i))
    IN  [k \in 1..Len(firsts) |-> list[firsts[k]].family]

\* The descriptors of family f in list, in order, as weights of a group
WeightsOf(list, f) ==
    LET ds == SelectSeq(list, LAMBDA d : d.family = f)
    IN  [k \in 1..Len(ds) |-> [weight |-> ds[k].weight, style |-> ds[k].style,
                               url |-> ds[k].url]]

RECURSIVE SumLen(_)
SumLen(groups) == IF groups = <<>> THEN 0 ELSE Len(Head(groups).weights) + SumLen(Tail(groups))

\* C5: groupFontsByFamily returns one group per distinct family, in the
\* order the families first occur; the weights of a group are the descriptors
\* of its family in input order; every descriptor is in exactly one group.
C5_GroupsInInputOrder ==
    (component = "functions" /\ op = "groupFontsByFamily") =>
        /\ [k \in 1..Len(out) |-> out[k].family] = FamilyOrder(input.list)
        /\ \A k \in 1..Len(out) : out[k].weights = WeightsOf(input.list, out[k].family)
        /\ SumLen(out) = Len(input.list)

\* Two families interleaved: the first family's group holds two weights
C5_Witness ==
    /\ component = "functions"
    /\ op = "groupFontsByFamily"
    /\ Len(input.list) = 3
    /\ input.list[1].family = input.list[3].family
    /\ input.list[1].family # input.list[2].family
    /\ input.list[1] # input.list[3]
    /\ Len(out) = 2
    /\ Len(out[1].weights) = 2


\* ------------------------------------------------------------------------
\* The descriptors of the parsers
\* ------------------------------------------------------------------------

\* parseFontFaces of fontExtractor, or parseGoogleFontsUrl, has returned
ExtractorParsed ==
    component = "functions" /\ op \in {"parseFontFaces", "parseGoogleFontsUrl"}

\* C6: every descriptor parseFontFaces or parseGoogleFontsUrl returns has a
\* non-empty family, a block without a usable font-family giving "Unknown".
C6_FamilyNonEmpty ==
    ExtractorParsed => \A k \in 1..Len(out) : out[k].family # <<>>

\* The CSS text of the input without the blocks that have no font-family
TextWithFamily ==
    LET kept == SelectSeq(input.blocks, LAMBDA b : b.family # <<>>)
    IN  Flatten([i \in 1..Len(kept) |-> Render(kept[i])])

\* The name a font-family value gives: the value without quotes and spaces
FamilyName(value) == SelectSeq(value, LAMBDA lex : lex \notin Quotes \cup WS)

HasPair(b) == \E i \in 1..Len(b.src) : b.src[i] = "format("

\* A block with a pair and without nested braces before it
PlainPair(b) == HasPair(b) /\ b.group = <<>>

MappedWeight(value) ==
    CASE value = <<>> -> <<"400">>
      [] value = <<"normal">> -> <<"400">>
      [] value = <<"bold">> -> <<"700">>
      [] value = <<"bolder">> -> <<"700">>
      [] value = <<"lighter">> -> <<"300">>
      [] OTHER -> value

\* C9: in both parsers a block's weight is "400" for normal, "700" for bold
\* and bolder, "300" for lighter, the number for a number, "400" without a
\* font-weight (checked on the inputs all of whose blocks have one of these
\* values).
C9_WeightMapping ==
    (component = "functions" /\ op \in {"parseFontFaces", "App.parseFontFaces"}) =>
        \A value \in {<<>>, <<"normal">>, <<"bold">>, <<"bolder">>, <<"lighter">>,
                      <<"400">>, <<"700">>, <<"1000">>} :
            (\A i \in 1..Len(input.blocks) : input.blocks[i].weight = value) =>
                IF op = "parseFontFaces"
                THEN \A k \in 1..Len(out) : out[k].weight = MappedWeight(value)
                ELSE \A e \in 1..Len(out) : \A k \in 1..Len(out[e].weights) :
                         out[e].weights[k].weight = MappedWeight(value)

\* C10: every descriptor parseFontFaces returns has the style "normal",
\* "italic" or "oblique".
C10_StyleKeyword ==
    (component = "functions" /\ op = "parseFontFaces") =>
        \A k \in 1..Len(out) : out[k].style \in {<<"normal">>, <<"italic">>, <<"oblique">>}


\* ------------------------------------------------------------------------
\* The src entries of a block
\* ------------------------------------------------------------------------

\* The formats the url() format() pairs of a src value declare, in order
PairFormats(src) ==
    LET at == SelectSeq([i \in 1..Len(src) |-> i], LAMBDA i : src[i] = "format(")
    IN  [k \in 1..Len(at) |-> <<Lower(src[at[k] + 2])>>]

\* A block with a family name, a src made of pairs and no nested group
WellFormed(b) == FamilyName(b.family) # <<>> /\ HasPair(b) /\ b.group = <<>>

\* What a well-formed block declares, pair by pair
Declared(b) ==
    LET fs == PairFormats(b.src)
    IN  [k \in 1..Len(fs) |->
            [family |-> FamilyName(b.family),
             weight |-> MappedWeight(ToLowerCase(b.weight)),
             style |-> IF b.style = <<>> THEN <<"normal">> ELSE ToLowerCase(b.style),
             format |-> fs[k]]]

DeclaredAll(blocks) == Flatten([i \in 1..Len(blocks) |-> Declared(blocks[i])])

\* C11: for a text of well-formed blocks parseFontFaces returns exactly one
\* descriptor per declared url() format() pair, in declaration order, each
\* with the family, weight and style of its block and the declared format.
C11_OnePerPair ==
    (/\ component = "functions"
     /\ op = "parseFontFaces"
     /\ \A i \in 1..Len(input.blocks) : WellFormed(input.blocks[i])) =>
        [k \in 1..Len(out) |-> [family |-> out[k].family, weight |-> out[k].weight,
                                style |-> out[k].style, format |-> out[k].format]]
            = DeclaredAll(input.blocks)

\* The src value without its unresolvable entry
Resolvable(src) == IF src = BadThenGood THEN Pair ELSE src

\* The CSS text of the input without the unresolvable src entries
TextResolvable ==
    Flatten([i \in 1..Len(input.blocks) |->
                Render([input.blocks[i] EXCEPT !.src = Resolvable(@)])])

\* C12: parseFontFaces returns a sequence of descriptors for every text; a
\* src entry whose URL cannot be resolved is left out, every descriptor
\* carrying a resolved URL, and the other entries of the block and the later
\* blocks are emitted as they are for the text without that entry.
C12_SkipsUnresolvable ==
    (component = "functions" /\ op = "parseFontFaces") =>
        /\ DOMAIN out = 1..Len(out)
        /\ \A k \in 1..Len(out) : ParseAbsolute(out[k].url).ok
        /\ out = ParseFontFaces(TextResolvable, SheetUrl)

\* A block whose first src entry is unresolvable, then a block of weight 700
C12_Witness ==
    /\ component = "functions"
    /\ op = "parseFontFaces"
    /\ Len(input.blocks) = 2
    /\ input.blocks[1].src = BadThenGood
    /\ input.blocks[2].weight = <<"700">>
    /\ Len(out) = 2
    /\ out[1].url = Https(ExCom) \o <<"/", "css", "/", "a", ".", "woff2">>
    /\ out[2].weight = <<"700">>


\* ------------------------------------------------------------------------
\* Google Fonts links
\* ------------------------------------------------------------------------

\* A weight token ends in "i" or contains "italic"
MarksItalic(token) == token[Len(token)] = "i" \/ \E i \in 1..Len(token) : token[i] = "italic"

\* The family, weight and style one name:weightSpec segment stands for
SegmentFonts(segment) ==
    LET parts == Split(segment, ":")
        name == ReplacePlus(parts[1])
        tokens == IF Len(parts) >= 2 /\ parts[2] # <<>> THEN Split(parts[2], ",") ELSE <<>>
    IN  IF tokens = <<>> THEN << <<name, <<"400">>, <<"normal">> >> >>
        ELSE [k \in 1..Len(tokens) |->
                 <<name,
                   IF DigitsOnly(tokens[k]) = <<>> THEN <<"400">> ELSE DigitsOnly(tokens[k]),
                   IF MarksItalic(tokens[k]) THEN <<"italic">> ELSE <<"normal">> >>]

\* C13: parseGoogleFontsUrl returns, for the segments of the family parameter
\* in order, one descriptor per weight token, italic exactly when the token
\* ends in "i" or contains "italic", with the token's digits as weight ("400"
\* if none), and one descriptor {name, "400", normal} for a segment without
\* weights; a link that is no URL gives the empty sequence.
C13_GoogleDecoding ==
    (component = "functions" /\ op = "parseGoogleFontsUrl") =>
        IF input.kind = "href" THEN out = <<>>
        ELSE [k \in 1..Len(out) |-> Key(out[k])]
                 = Flatten([i \in 1..Len(input.specs) |-> SegmentFonts(input.specs[i])])


\* ------------------------------------------------------------------------
\* Nested braces
\* ------------------------------------------------------------------------

\* The CSS text of the input with the nested groups taken out of the blocks
TextWithoutGroups ==
    Flatten([i \in 1..Len(input.blocks) |->
                Render([input.blocks[i] EXCEPT !.group = <<>>])])

\* C20: the body of a block extends to the block's own closing brace, so a
\* nested { ... } group hides nothing: both parsers return for a text what
\* they return for the same text with the nested groups removed.
C20_NestedBraces ==
    /\ (component = "functions" /\ op = "parseFontFaces") =>
           out = ParseFontFaces(TextWithoutGroups, SheetUrl)
    /\ (component = "functions" /\ op = "App.parseFontFaces") =>
           out = AppParseFontFaces(TextWithoutGroups, <<>>, SheetUrl)


\* ------------------------------------------------------------------------
\* The analysis of a page
\* ------------------------------------------------------------------------

\* What is in the URL box of the component
Entered == IF component = "App" THEN url ELSE pkUrl

\* The entered URL, trimmed, with "https://" in front if it has no scheme
Normalized(v) == IF In(Trim(v), 1, Schemes) THEN Trim(v) ELSE Https(Trim(v))

\* C15: the page analyze fetches, and the base URL it resolves against, is
\* the trimmed input with "https://" prepended exactly when it has no scheme.
C15_UrlNormalized ==
    Analyzing => /\ targetUrl = Normalized(Entered)
                 /\ netlog[1].target = Normalized(Entered)

\* The fetched page holds a bot protection marker
BotProtected == html.markers \cap BotMarkers # {}

\* No request was issued for anything but the page
OnlyPageRequested == \A i \in 1..Len(netlog) : netlog[i].target = targetUrl

\* C16: when the fetched page holds a bot protection marker, analyze ends
\* with an error and without descriptors, no style sheet having been fetched
\* and no CSS parsed.
C16_BotProtectionFailsFast ==
    (component \in {"App", "FontPeek"} /\ BotProtected) =>
        /\ pc = "done"
        /\ OnlyPageRequested
        /\ fontMap = <<>> /\ found = <<>>
        /\ fonts = <<>> /\ pkFonts = <<>>
        /\ IF component = "App" THEN error # "" ELSE alerts = BotMessage

\* The Map App's extractFonts holds after the style sheets js, the first of
\* them fetched by call c, when only the sheets that arrived are parsed
RECURSIVE AppSheetsMerged(_, _, _)
AppSheetsMerged(map, js, c) ==
    IF js = <<>> THEN map
    ELSE AppSheetsMerged(
             IF calls[c].result = "response"
             THEN AppParseFontFaces(BodyOf(Head(js).target).css, map, Head(js).base)
             ELSE map,
             Tail(js), c + 1)

\* The descriptors of the style sheets ss of FontPeek that arrived, request
\* i + 1 being the one for sheet i
ArrivedSheetFonts(ss) ==
    Flatten([i \in 1..Len(ss) |->
                IF netlog[i + 1].outcome = "ok"
                THEN ParseFontFaces(BodyOf(ss[i]).css, ss[i]) ELSE <<>>])

\* A style sheet of the analysis could not be fetched
SomeSheetFailed ==
    IF component = "App" THEN \E c \in 2..Len(calls) : calls[c].result = "thrown"
    ELSE \E i \in 2..Len(netlog) : Failed(netlog[i])

\* C17: an analysis whose page arrived ends without failure whatever became
\* of its style sheets: every style sheet of the page was asked for, each in
\* its turn, and the result is what the inline styles, the style sheets that
\* arrived and the Google links give, the failed style sheets left out.
C17_PartialResults ==
    (component \in {"App", "FontPeek"} /\ pc = "done" /\ Extracted) =>
        IF component = "App"
        THEN /\ Len(calls) = 1 + Len(ExtractFontsJobs(html.elems, targetUrl))
             /\ \A c \in 2..Len(calls) :
                    calls[c].target = ExtractFontsJobs(html.elems, targetUrl)[c - 1].target
             /\ fontMap = AppParseInline(
                              AppSheetsMerged(<<>>, ExtractFontsJobs(html.elems, targetUrl), 2),
                              InlineStyles(html.elems), targetUrl)
             /\ error # "Could not fetch page. Try a different URL."
             /\ fontMap # <<>> => fonts = fontMap
        ELSE /\ Len(netlog) = 1 + Len(StylesheetUrls(html.elems, targetUrl))
             /\ \A i \in 2..Len(netlog) :
                    netlog[i].target = StylesheetUrls(html.elems, targetUrl)[i - 1]
             /\ found = InlineFonts(InlineStyles(html.elems), targetUrl)
                        \o ArrivedSheetFonts(StylesheetUrls(html.elems, targetUrl))
                        \o GoogleFonts(SelectSeq(html.elems, IsGoogleLink))
             /\ alerts = ""
             /\ pkFonts = GroupFontsByFamily(Dedupe(found))

\* FontPeek has ended an analysis whose first style sheet failed and whose
\* second arrived: the inline and the later fonts are shown
C17_Witness ==
    /\ component = "FontPeek"
    /\ pc = "done"
    /\ Extracted
    /\ SomeSheetFailed
    /\ Len(netlog) = 3
    /\ Failed(netlog[2])
    /\ netlog[3].outcome = "ok"
    /\ \E k \in 1..Len(pkFonts) : pkFonts[k].family = <<"Acme">>
    /\ \E k \in 1..Len(pkFonts) : pkFonts[k].family = <<"Roboto">>


\* ------------------------------------------------------------------------
\* The requests of an analysis
\* ------------------------------------------------------------------------

\* The targets of the style sheet fetches of the analysis, in the order in
\* which they started
SheetTargets ==
    IF component = "App" THEN [c \in 1..(Len(calls) - 1) |-> calls[c + 1].target]
    ELSE [i \in 1..(Len(netlog) - 1) |-> netlog[i + 1].target]

\* Where in the document the link of a fetched style sheet stands
LinkPos(target) ==
    CHOOSE i \in 1..Len(html.elems) :
        /\ html.elems[i].tag = "link"
        /\ \/ html.elems[i].href = target
           \/ /\ ResolveUrl(html.elems[i].href, targetUrl).ok
              /\ Href(ResolveUrl(html.elems[i].href, targetUrl)) = target

\* At most one request is outstanding, and it is the last one issued; the
\* requests of a fetchWithProxy call come after those of the calls before it,
\* which have all ended
OneAtATime ==
    /\ \A i \in 1..(Len(netlog) - 1) : netlog[i].outcome # "pending"
    /\ \A i, j \in 1..Len(netlog) : i < j => netlog[i].call <= netlog[j].call
    /\ \A c \in 1..(Len(calls) - 1) : calls[c].result # "pending"

IsGoogleTarget(target) == Includes(target, GoogleHost)

ShownWeights ==
    LET groups == IF component = "App" THEN fonts ELSE pkFonts
    IN  UNION {{groups[g].weights[i] : i \in 1..Len(groups[g].weights)} :
                   g \in 1..Len(groups)}

\* C14: download called for a weight without url ends at once, no request
\* issued, no file saved, no window opened; no request, file or window of a
\* download is for the empty url; and App shows no weight without url.
C14_NoUrlNoDownload ==
    component \in {"App", "FontPeek"} =>
        /\ (dl.pc # "idle" /\ dl.url = NoUrl) =>
               dl.pc = "done" /\ dlog = <<>> /\ saved = <<>> /\ opened = <<>>
        /\ \A i \in 1..Len(dlog) : dlog[i].target # NoUrl
        /\ \A i \in 1..Len(opened) : opened[i] # NoUrl
        /\ Len(saved) <= Len(dlog)
        /\ component = "App" => \A w \in ShownWeights : w.url # NoUrl

\* The download button of Roboto 700 italic, which the Google Fonts link of
\* shop.io gave FontPeek without url, was pressed
C14_Witness ==
    /\ component = "FontPeek"
    /\ dl.pc = "done"
    /\ dl.family = <<"Roboto">>
    /\ dl.weight = <<"700">>
    /\ dl.style = <<"italic">>
    /\ dl.url = NoUrl
    /\ \E w \in ShownWeights : w.weight = <<"700">> /\ w.url = NoUrl
    /\ dlog = <<>>
    /\ saved = <<>>

\* The direct request comes first, the relays of CORS_PROXIES after it in
\* list order, each contacted only when the request before it failed, all of
\* them for the url of the download
DirectThenRelays ==
    \A i \in 1..Len(dlog) :
        /\ dlog[i].target = dl.url
        /\ dlog[i].via = IF i = 1 THEN "" ELSE CORS_PROXIES[i - 1]
        /\ i > 1 => Failed(dlog[i - 1])

\* The descriptor's own format as convertFont labels it
SourceLabel == IF dl.format = <<>> THEN <<"woff2">>
               ELSE RemoveFirstHyphen(ToLowerCase(dl.format))

\* The name of the saved file is {sanitizedFamily}-{weight}.{label}
SavedAs(label) ==
    /\ Len(saved) = 1
    /\ saved[1].name = Sanitize(dl.family) \o <<"-">> \o dl.weight \o <<".">> \o label

\* A download of App has ended with the bytes in hand
Fetched == component = "App" /\ dl.pc = "done" /\ dlog[Len(dlog)].outcome = "ok"

PairsOf(src) ==
    LET at == SelectSeq([i \in 1..Len(src) |-> i], LAMBDA i : src[i] = "format(")
        open(p) == CHOOSE q \in 1..p : src[q] = "url(" /\ \A r \in (q + 1)..p : src[r] # "url("
        raw(p) == SubSeq(src, open(p) + 1, p - 3)
        ok == SelectSeq(at, LAMBDA p : ResolveUrl(raw(p), SheetUrl).ok)
    IN  [k \in 1..Len(ok) |-> [url |-> Href(ResolveUrl(raw(ok[k]), SheetUrl)),
                               format |-> <<Lower(src[ok[k] + 2])>>]]

\* The pairs of all the blocks of the input
InputPairs == Flatten([i \in 1..Len(input.blocks) |-> PairsOf(input.blocks[i].src)])

\* C21: a URL that a src gives as a url() format() pair comes out once per
\* such pair at most, and always with a format declared for it: no
\* descriptor of that URL is added with the format read off the extension.
C21_DeclaredFormatOnly ==
    (component = "functions" /\ op = "parseFontFaces") =>
        \A p \in 1..Len(InputPairs) :
            /\ Cardinality({k \in 1..Len(out) : out[k].url = InputPairs[p].url})
                   <= Cardinality({q \in 1..Len(InputPairs) :
                                       InputPairs[q].url = InputPairs[p].url})
            /\ \A k \in 1..Len(out) :
                   out[k].url = InputPairs[p].url =>
                       \E q \in 1..Len(InputPairs) :
                           /\ InputPairs[q].url = out[k].url
                           /\ InputPairs[q].format = out[k].format


\* ------------------------------------------------------------------------
\* Google Fonts links and the network
\* ------------------------------------------------------------------------

\* C22: during an analysis no request is issued for a link whose href
\* contains fonts.googleapis.com; such links are read by the query parser
\* only.
C22_NoGoogleRequest ==
    component \in {"App", "FontPeek"} =>
        \A i \in 1..Len(netlog) : ~IsGoogleTarget(netlog[i].target)


\* ------------------------------------------------------------------------
\* The winner of a deduplication tie
\* ------------------------------------------------------------------------

\* The descriptors of an analysis of FontPeek in the order of their sources:
\* the inline styles, then the style sheets that arrived, then the Google
\* links, each in document order
PriorityOrder ==
    InlineFonts(InlineStyles(html.elems), targetUrl)
    \o ArrivedSheetFonts(StylesheetUrls(html.elems, targetUrl))
    \o GoogleFonts(SelectSeq(html.elems, IsGoogleLink))

\* The weights shown for a key family-weight-style
ShownFor(groups, key) ==
    {<<g, w>> \in (1..Len(groups)) \X (1..MaxShown * MaxShown) :
        /\ w <= Len(groups[g].weights)
        /\ FontKey([family |-> groups[g].family, weight |-> groups[g].weights[w].weight,
                    style |-> groups[g].weights[w].style]) = key}

\* Of the descriptors of a key, the first of list is the one shown, once
FirstWins(list, groups) ==
    \A i \in 1..Len(list) :
        (\A j \in 1..(i - 1) : FontKey(list[j]) # FontKey(list[i])) =>
            /\ Cardinality(ShownFor(groups, FontKey(list[i]))) = 1
            /\ \A p \in ShownFor(groups, FontKey(list[i])) :
                   groups[p[1]].weights[p[2]].url = list[i].url

\* C23: of the descriptors with one key the one shown is the first in the
\* order inline styles, style sheets in link order, Google links in link
\* order; the outcome of an analysis is fixed by the page and by which style
\* sheets arrived.
C23_StablePriority ==
    (component = "FontPeek" /\ pc = "done" /\ Extracted) =>
        FirstWins(PriorityOrder, pkFonts)

\* FontPeek shows the descriptor of a style sheet that arrived where the
\* same key came from a later source with another URL
C23_Witness ==
    /\ component = "FontPeek"
    /\ pc = "done"
    /\ Extracted
    /\ \E i, j \in 1..Len(found) :
           /\ i < j
           /\ FontKey(found[i]) = FontKey(found[j])
           /\ found[i].url # found[j].url
           /\ \A k \in 1..(i - 1) : FontKey(found[k]) # FontKey(found[i])
           /\ \E p \in ShownFor(pkFonts, FontKey(found[i])) :
                  pkFonts[p[1]].weights[p[2]].url = found[i].url


\* ------------------------------------------------------------------------
\* Blocks after other blocks
\* ------------------------------------------------------------------------

\* The src of the block holds a url() whose URL resolves against the style
\* sheet
HasResolvableUrl(b) ==
    \E i \in 1..Len(b.src) :
        UrlAt(b.src, i).ok /\ ResolveUrl(UrlAt(b.src, i).text, SheetUrl).ok

\* The number of descriptors parseFontFaces returns for the first n blocks of
\* the input, the result of the call standing for all of them
DescriptorsUpTo(n) ==
    IF n = Len(input.blocks) THEN Len(out)
    ELSE Len(ParseFontFaces(CssText([input EXCEPT !.blocks = SubSeq(@, 1, n)]), SheetUrl))

\* C24: a block whose src holds a url() that resolves adds a descriptor to
\* the result whatever blocks stand before it in the text.
C24_EveryBlockContributes ==
    (component = "functions" /\ op = "parseFontFaces") =>
        \A i \in 1..Len(input.blocks) :
            HasResolvableUrl(input.blocks[i]) =>
                DescriptorsUpTo(i) > DescriptorsUpTo(i - 1)


\* ------------------------------------------------------------------------
\* The loading flag
\* ------------------------------------------------------------------------

\* The flag the component shows while it analyses
Busy == IF component = "App" THEN loading ELSE isLoading

\* C25: loading is true from the start of an analysis of a non-empty URL to
\* its end and false after every way it can end; when every fetch resolves
\* or rejects, an analysis that started reaches loading = false.
C25_LoadingEnds ==
    /\ [](component \in {"App", "FontPeek"} => (Busy <=> Analyzing))
    /\ (Busy ~> ~Busy)

\* App has ended an analysis whose page could not be fetched:
\* the flag is off and the error is shown
C25_Witness ==
    /\ component = "App"
    /\ pc = "done"
    /\ analyzed
    /\ ~loading
    /\ error = CouldNotFetch
    /\ Len(calls) = 1
    /\ calls[1].result = "thrown"


\* ------------------------------------------------------------------------
\* Error message and results
\* ------------------------------------------------------------------------

\* C26: in App, whenever the error message is not empty the list of results
\* is empty: a message and a font list are never shown together.
C26_ErrorMeansNoFonts ==
    component = "App" => (error # "" => fonts = <<>>)


\* ------------------------------------------------------------------------
\* analyze with an empty URL
\* ------------------------------------------------------------------------

\* The URL field of the component
Field == IF component = "App" THEN url ELSE pkUrl

\* The results the component lists
Listed == IF component = "App" THEN fonts ELSE pkFonts

\* C27: a step taken while the URL is empty or blank that is neither an edit
\* of the URL nor a download or a choice of format, that is, an invocation
\* of analyze, issues no request and leaves the results, the loading flag
\* and analyzed as they are.
C27_EmptyAnalyzeIsIdle ==
    [][(/\ component \in {"App", "FontPeek"}
        /\ Trim(Field) = <<>>
        /\ Field' = Field
        /\ dlVars' = dlVars)
       => /\ netlog' = netlog
          /\ calls' = calls
          /\ Listed' = Listed
          /\ Busy' = Busy
          /\ analyzed' = analyzed]_vars

\* App has rejected an analyze of a blank URL, after an edit that blanked
\* it, with the results of the analysis before still listed and no request
\* outstanding
C27_Witness ==
    /\ component = "App"
    /\ pc = "rejected"
    /\ Trim(url) = <<>>
    /\ url # <<>>
    /\ fonts # <<>>
    /\ analyzed
    /\ ~loading
    /\ ~Pending


\* ------------------------------------------------------------------------
\* The converting state and the rows
\* ------------------------------------------------------------------------

\* The download button of weight i of group g is disabled
Disabled(g, i) == converting = DownloadKey(fonts[g].family, fonts[g].weights[i].weight)

\* C28: while a download started for a row is in flight, converting is that
\* row's key, so the row's button stays disabled until its own download
\* ends; and a row is disabled only by a download in flight for a row of its
\* weight and style.
C28_OwnRowDisabled ==
    component = "App" =>
        /\ \A k \in 1..Len(flights) : converting = flights[k].key
        /\ \A g \in 1..Len(fonts) : \A i \in 1..Len(fonts[g].weights) :
               Disabled(g, i) =>
                   \E k \in 1..Len(flights) :
                       /\ fonts[flights[k].g].weights[flights[k].i].weight
                              = fonts[g].weights[i].weight
                       /\ fonts[flights[k].g].weights[flights[k].i].style
                              = fonts[g].weights[i].style


\* ------------------------------------------------------------------------
\* Preview fonts
\* ------------------------------------------------------------------------

\* C29: a preview font id is in loadedFonts only if a FontFace of that id
\* has been added to document.fonts, so a row is shown in its preview font
\* only when that font was loaded.
C29_LoadedMeansRegistered ==
    component = "App" => \A id \in loadedFonts : Registered(documentFonts, id)

\* C30: document.fonts never holds two FontFace entries of one preview id,
\* whatever analyses and preview loading runs overlap.
C30_RegisteredOnce ==
    component = "App" =>
        \A m, n \in 1..Len(documentFonts) :
            m # n => documentFonts[m] # documentFonts[n]

====
